---- MODULE Spec2Model ----
(***************************************************************************)
(* Model of the live point-cloud page (src/app/point/page.tsx): the ring   *)
(* buffer of captured frames, the capture loop driven by video-frame       *)
(* callbacks, and the asynchronous startCapture / stopCapture / unmount    *)
(* life cycle, together with the pure index helpers of                     *)
(* src/app/point/utils/index.ts and the vertex shader's frame reordering.  *)
(*                                                                         *)
(* Byte buffers are functions over 0..n-1 (the empty function is a null    *)
(* ref).  A startCapture call is identified by its ordinal c; the render   *)
(* closure it was invoked from (targetW, targetH, targetFrames at click    *)
(* time) is kept in calls[c], because initLivePoints, processFrame and     *)
(* scheduleNextFrame of that call all read the closure, not the current    *)
(* React state.  The capture loop started by call c has at most one        *)
(* registered callback at a time, so a callback handle is named by c.      *)
(***************************************************************************)
EXTENDS Integers, Sequences, FiniteSets, TLC

\* ---------------------------------------------------------------- bounds
MaxW == 2
MaxH == 1
MaxFrames == 3
MaxCalls == 2
MaxTicks == 4
MaxT == 4
MaxSpacing == 2

\* What the number inputs are set to in the capture specification ...
WValues == 1..MaxW
FValues == 0..MaxFrames
\* ... and in the initialisation specification (parseInt yields any integer).
AnyW == {-1, 0} \cup (1..MaxW)
AnyH == {-1, 0} \cup (1..MaxH)
AnyF == {-1, 0} \cup (1..MaxFrames)
CallIds == 1..MaxCalls

\* ------------------------------------------------------- program constants
STATUS_EVERY == 30
ALPHA_OPAQUE == 255
DEFAULT_SPACING == 2
\* SLICE_CONFIG defaults; each minimum is the negative of its maximum.
DEFAULT_X_MAX == 72
DEFAULT_Y_MAX == 127
DEFAULT_Z_MAX == 60
DEFAULT_Z_MAX_BASE == 30
\* Twice the step of the x / y sliders (1) and of the z sliders (Z_STEP = 0.5).
XY_STEP2 == 2
Z_STEP2 == 1
BYTES_PER_POINT == 15

VARIABLES
  mounted,        \* the component is mounted (React applies its state updates)
  videoRef,       \* videoRef.current # null
  hiddenCanvasRef,\* hiddenCanvasRef.current # null
  sceneRef,       \* sceneRef.current # null
  hasRVFC,        \* requestVideoFrameCallback is available
  targetW, targetH, targetFrames,   \* React state of the W/H/Frames inputs
  isCapturing,    \* React state driving the disabled attributes
  status,         \* React state: the status string (by kind)
  colorData,      \* colorDataRef.current (<<>> = null)
  colorTexture,   \* colorTextureRef.current
  material,       \* materialRef.current with the ring-buffer uniforms
  points,         \* pointsRef.current: number of points of the geometry (0 = null)
  writeIndex,     \* writeIndexRef.current
  ctxRef,         \* ctxRef.current # null
  rvfcRef, rafRef,\* pending handle refs (0 = null, else the loop that registered)
  capturing,      \* capturingRef.current
  frameCount,     \* frameCountRef.current
  mediaStreamRef, \* mediaStreamRef.current (0 = null, else stream id)
  videoSrc,       \* video.srcObject (0 = null, else stream id)
  stream,         \* state of the tracks of every MediaStream handed out
  calls,          \* the startCapture invocations and their closures
  pending,        \* callbacks registered for the next video frame, in order
  running,        \* callbacks of the frame being delivered, still to run
  spacing,        \* React state of the spacing slider
  extentsRef,     \* extentsRef.current, every value doubled
  slice,          \* React state xMin .. zMax of the slice sliders, doubled
  probe,          \* one evaluation of an index helper: its inputs and result
  comp            \* state of one of the other pages, hooks or components

pageVars == <<mounted, videoRef, hiddenCanvasRef, sceneRef, hasRVFC,
              targetW, targetH, targetFrames, isCapturing, status,
              colorData, colorTexture, material, points, writeIndex, ctxRef,
              rvfcRef, rafRef, capturing, frameCount, mediaStreamRef,
              videoSrc, stream, calls, pending, running, spacing,
              extentsRef, slice>>

vars == <<pageVars, probe, comp>>

\* ------------------------------------------------------------ pure helpers

Abs(n) == IF n < 0 THEN -n ELSE n

\* JavaScript's % : truncated division, the result has the sign of the dividend.
JSRem(a, b) == IF a >= 0 THEN a % Abs(b) ELSE -((-a) % Abs(b))

\* GLSL mod(x, y) = x - y * floor(x / y), for y > 0.
GLSLMod(x, y) == x % y

\* Variant of calcTotalPoints that counts the points of one frame only.
calcTotalPoints_oneFrame(width, height, frames) == width * height

calcTotalPoints(width, height, frames) == width * height * frames

calcPixelIndex(x, y, width) == y * width + x

\* Variant of calcActualFrameIndex that forgets to wrap around.
calcActualFrameIndex_noWrap(logicalFrame, wIdx, totalFrames) ==
  wIdx + logicalFrame

calcActualFrameIndex(logicalFrame, wIdx, totalFrames) ==
  JSRem(wIdx + logicalFrame, totalFrames)

\* Legacy three-argument form used by the exporter: width = pixelsPerFrame.
calcColorDataIndex(frameIndex, pixelIndex, pixelsPerFrame) ==
  (frameIndex * pixelsPerFrame + pixelIndex) * 4

\* Variant of adjustedFrame with the subtraction the wrong way round.
adjustedFrame_reversed(aFrameIndex, uWriteIndex, uTotalFrames) ==
  GLSLMod(uWriteIndex - aFrameIndex + uTotalFrames, uTotalFrames)

\* Vertex shader: time-ordered position of the slot stored at aFrameIndex.
adjustedFrame(aFrameIndex, uWriteIndex, uTotalFrames) ==
  GLSLMod(aFrameIndex - uWriteIndex + uTotalFrames, uTotalFrames)

\* Variant of calcHalf that truncates to a whole number, doubled.
calcHalf2_floor(size) == 2 * ((size - 1) \div 2)

\* Twice calcHalf(size) = (size - 1) / 2, so that halves stay integral.
calcHalf2(size) == size - 1

\* Twice calcZPosition(frameIndex, totalFrames, spacing).
calcZPosition2(frameIndex, totalFrames, zSpacing) ==
  (2 * frameIndex - calcHalf2(totalFrames)) * zSpacing

\* Twice the vertex shader's zPos for the slot stored at aFrameIndex.
shaderZPos2(aFrameIndex, uWriteIndex, uTotalFrames, uZScale) ==
  (2 * adjustedFrame(aFrameIndex, uWriteIndex, uTotalFrames)
     - (uTotalFrames - 1)) * uZScale

\* ------------------------------------------------------------ the video
\* Byte i of the ImageData read back at the t-th capture tick since the
\* last initialisation: every tick delivers distinguishable pixels.
VideoByte(t, i) == (t * 37 + i) % 256

\* ------------------------------------------------------------ null values
NoBuffer == << >>
NoTexture == [exists |-> FALSE, needsUpdate |-> FALSE]
NoMaterial == [exists |-> FALSE, uWriteIndex |-> 0, uTotalFrames |-> 0,
               uPixelsPerFrame |-> 0]
NoCall == [phase |-> "none", W |-> 0, H |-> 0, F |-> 0, S |-> 0]
Done(phase) == [phase |-> phase, W |-> 0, H |-> 0, F |-> 0, S |-> 0]

\* ------------------------------------------------- the state as one record
St == [mounted |-> mounted, videoRef |-> videoRef,
       hiddenCanvasRef |-> hiddenCanvasRef, sceneRef |-> sceneRef,
       hasRVFC |-> hasRVFC,
       targetW |-> targetW, targetH |-> targetH, targetFrames |-> targetFrames,
       isCapturing |-> isCapturing, status |-> status,
       colorData |-> colorData, colorTexture |-> colorTexture,
       material |-> material, points |-> points, writeIndex |-> writeIndex,
       ctxRef |-> ctxRef, rvfcRef |-> rvfcRef, rafRef |-> rafRef,
       capturing |-> capturing, frameCount |-> frameCount,
       mediaStreamRef |-> mediaStreamRef, videoSrc |-> videoSrc,
       stream |-> stream, calls |-> calls, pending |-> pending,
       running |-> running, spacing |-> spacing,
       extentsRef |-> extentsRef, slice |-> slice]

Apply(s) ==
  /\ mounted' = s.mounted /\ videoRef' = s.videoRef
  /\ hiddenCanvasRef' = s.hiddenCanvasRef /\ sceneRef' = s.sceneRef
  /\ hasRVFC' = s.hasRVFC
  /\ targetW' = s.targetW /\ targetH' = s.targetH
  /\ targetFrames' = s.targetFrames
  /\ isCapturing' = s.isCapturing /\ status' = s.status
  /\ colorData' = s.colorData /\ colorTexture' = s.colorTexture
  /\ material' = s.material /\ points' = s.points
  /\ writeIndex' = s.writeIndex /\ ctxRef' = s.ctxRef
  /\ rvfcRef' = s.rvfcRef /\ rafRef' = s.rafRef
  /\ capturing' = s.capturing /\ frameCount' = s.frameCount
  /\ mediaStreamRef' = s.mediaStreamRef /\ videoSrc' = s.videoSrc
  /\ stream' = s.stream /\ calls' = s.calls
  /\ pending' = s.pending /\ running' = s.running
  /\ spacing' = s.spacing
  /\ extentsRef' = s.extentsRef /\ slice' = s.slice
  /\ UNCHANGED <<probe, comp>>

\* setStatus / setIsCapturing: React drops state updates of an unmounted component.
setStatus(s, msg) == IF s.mounted THEN [s EXCEPT !.status = msg] ELSE s
setIsCapturing(s, v) == IF s.mounted THEN [s EXCEPT !.isCapturing = v] ELSE s

Without(q, c) == SelectSeq(q, LAMBDA h : h # c)
InSeq(q, c) == \E i \in 1..Len(q) : q[i] = c

\* The closure of call c may be collected once the call is over and its
\* loop has no registered callback left.
Collect(s) ==
  [s EXCEPT !.calls = [c \in CallIds |->
     IF /\ s.calls[c].phase \in {"ok", "failed"}
        /\ ~InSeq(s.pending, c) /\ ~InSeq(s.running, c)
     THEN Done(s.calls[c].phase)
     ELSE s.calls[c]]]

\* ---------------------------------------------------------- page functions

\* disposePoints(): drops geometry, material, texture, buffer and cursor.
disposePoints(s) ==
  [s EXCEPT !.points = IF s.sceneRef THEN 0 ELSE s.points,
            !.material = NoMaterial,
            !.colorTexture = NoTexture,
            !.colorData = NoBuffer,
            !.writeIndex = 0]

\* Variant of initLivePoints that keeps an existing buffer and cursor instead
\* of reallocating.
initLivePoints_reuse(s, c, ctxOk) ==
  LET W == s.calls[c].W
      H == s.calls[c].H
      F == s.calls[c].F
      totalPoints == calcTotalPoints(W, H, F)
  IN
  IF ~s.sceneRef \/ ~s.hiddenCanvasRef
  THEN [ok |-> FALSE, st |-> setStatus(s, "notReady")]
  ELSE IF totalPoints <= 0
  THEN [ok |-> FALSE, st |-> setStatus(s, "invalidTarget")]
  ELSE IF ~ctxOk
  THEN [ok |-> FALSE, st |-> setStatus(s, "noContext")]
  ELSE
    [ok |-> TRUE,
     st |-> [s EXCEPT
       !.ctxRef = TRUE,
       !.colorData = IF s.colorData # NoBuffer THEN s.colorData
                     ELSE [i \in 0..(W * H * F * 4 - 1) |-> 0],
       !.colorTexture = [exists |-> TRUE, needsUpdate |-> TRUE],
       !.points = totalPoints,
       !.material = [exists |-> TRUE, uWriteIndex |-> s.writeIndex,
                     uTotalFrames |-> F, uPixelsPerFrame |-> W * H],
       !.frameCount = 0]]

\* initLivePoints() as called from startCapture call c, reading the closure
\* of c; ctxOk is whether hidden.getContext("2d") returns a context.
\* The result is [ok |-> the returned boolean, st |-> the state afterwards].
initLivePoints(s, c, ctxOk) ==
  LET W == s.calls[c].W
      H == s.calls[c].H
      F == s.calls[c].F
      pixelsPerFrame == W * H
      totalPoints == calcTotalPoints(W, H, F)
  IN
  IF ~s.sceneRef \/ ~s.hiddenCanvasRef
  THEN [ok |-> FALSE, st |-> setStatus(s, "notReady")]
  ELSE IF totalPoints <= 0
  THEN [ok |-> FALSE, st |-> setStatus(s, "invalidTarget")]
  ELSE IF ~ctxOk
  THEN [ok |-> FALSE, st |-> setStatus(s, "noContext")]
  ELSE
    LET d == disposePoints([s EXCEPT !.ctxRef = TRUE])
    IN [ok |-> TRUE,
        st |-> [d EXCEPT
          !.colorData = [i \in 0..(pixelsPerFrame * F * 4 - 1) |-> 0],
          !.colorTexture = [exists |-> TRUE, needsUpdate |-> TRUE],
          !.writeIndex = 0,
          !.points = totalPoints,
          !.material = [exists |-> TRUE, uWriteIndex |-> 0,
                        uTotalFrames |-> F,
                        uPixelsPerFrame |-> pixelsPerFrame],
          !.frameCount = 0,
          !.extentsRef = [xMinAll |-> -calcHalf2(W), xMaxAll |-> calcHalf2(W),
                          yMinAll |-> -calcHalf2(H), yMaxAll |-> calcHalf2(H),
                          zMinBase |-> -calcHalf2(F),
                          zMaxBase |-> calcHalf2(F)],
          !.slice = IF ~s.mounted THEN s.slice
                    ELSE [xMin |-> -calcHalf2(W), xMax |-> calcHalf2(W),
                          yMin |-> -calcHalf2(H), yMax |-> calcHalf2(H),
                          zMin |-> -calcHalf2(F) * s.calls[c].S,
                          zMax |-> calcHalf2(F) * s.calls[c].S]]]

\* Whether processFrame of loop c passes its two early returns.
Ticks(s) ==
  /\ s.capturing
  /\ s.videoRef /\ s.ctxRef /\ s.colorData # NoBuffer
  /\ s.colorTexture.exists /\ s.material.exists

\* processFrame() of the capture loop started by call c.
processFrame(s, c) ==
  IF ~Ticks(s) THEN s
  ELSE
    LET W == s.calls[c].W
        H == s.calls[c].H
        F == s.calls[c].F
        pixelsPerFrame == W * H
        w == s.writeIndex
        rowOffset == w * pixelsPerFrame * 4
        t == s.frameCount + 1
        next == JSRem(w + 1, F)
        count == s.frameCount + 1
        s1 == [s EXCEPT
          !.colorData = [i \in DOMAIN s.colorData |->
             IF i >= rowOffset /\ i < rowOffset + pixelsPerFrame * 4
             THEN IF (i - rowOffset) % 4 = 3 THEN ALPHA_OPAQUE
                  ELSE VideoByte(t, i - rowOffset)
             ELSE s.colorData[i]],
          !.colorTexture.needsUpdate = TRUE,
          !.writeIndex = next,
          !.material.uWriteIndex = next,
          !.frameCount = count]
    IN IF count % STATUS_EVERY = 0 THEN setStatus(s1, "liveUpdate") ELSE s1

\* scheduleNextFrame() of the capture loop started by call c.
scheduleNextFrame(s, c) ==
  IF ~s.capturing \/ ~s.videoRef THEN s
  ELSE IF s.hasRVFC
  THEN [s EXCEPT !.rvfcRef = c, !.pending = Append(s.pending, c)]
  ELSE [s EXCEPT !.rafRef = c, !.pending = Append(s.pending, c)]

\* cancelVideoFrameCallback / cancelAnimationFrame of the handle of loop c.
cancelCallback(s, c) ==
  [s EXCEPT !.pending = Without(s.pending, c),
            !.running = Without(s.running, c)]

cancelRaf(s) ==
  IF s.rafRef # 0 THEN [cancelCallback(s, s.rafRef) EXCEPT !.rafRef = 0] ELSE s

\* mediaStreamRef.current.getTracks().forEach(track => track.stop())
stopTracks(s) ==
  IF s.mediaStreamRef # 0
  THEN [s EXCEPT !.stream[s.mediaStreamRef] = "stopped", !.mediaStreamRef = 0]
  ELSE s

\* The media element's load algorithm (run by assigning srcObject) and pause()
\* reject the play() promises still pending; self is the call assigning.
abortPlay(s, self) ==
  [s EXCEPT !.calls = [c \in CallIds |->
     IF c # self /\ s.calls[c].phase = "play"
     THEN [s.calls[c] EXCEPT !.phase = "playAbort"]
     ELSE s.calls[c]]]

\* Variant of stopCapture that also disposes the point cloud and its buffer.
stopCapture_disposing(s, skipState, skipStatus) ==
  LET s0 == disposePoints([s EXCEPT !.capturing = FALSE])
      s1 == IF skipState THEN s0 ELSE setIsCapturing(s0, FALSE)
      s2 == [cancelRaf(s1) EXCEPT !.videoSrc = 0, !.rvfcRef = 0]
      s3 == stopTracks(s2)
      s4 == [s3 EXCEPT !.ctxRef = FALSE]
  IN IF skipStatus THEN s4 ELSE setStatus(s4, "stopped")

\* stopCapture(options)
stopCapture(s, skipState, skipStatus) ==
  LET s0 == [s EXCEPT !.capturing = FALSE]
      s1 == IF skipState THEN s0 ELSE setIsCapturing(s0, FALSE)
      s2 == IF s1.videoRef
            THEN LET a == IF s1.rvfcRef # 0
                          THEN cancelCallback(s1, s1.rvfcRef) ELSE s1
                     b == cancelRaf([a EXCEPT !.rvfcRef = 0])
                 IN abortPlay([b EXCEPT !.videoSrc = 0], 0)
            ELSE cancelRaf(s1)
      s3 == stopTracks([s2 EXCEPT !.rvfcRef = 0])
      s4 == [s3 EXCEPT !.ctxRef = FALSE]
  IN IF skipStatus THEN s4 ELSE setStatus(s4, "stopped")

\* Variant of the catch block that swallows the error without a status.
catchError_silent(s, c, err) ==
  [stopCapture(s, TRUE, TRUE) EXCEPT !.calls[c] = Done("failed")]

\* The catch block of startCapture call c, err being the message caught.
catchError(s, c, err) ==
  LET s1 == setStatus(s, err)
      s2 == stopCapture(s1, TRUE, TRUE)
  IN [s2 EXCEPT !.calls[c] = Done("failed")]

\* ------------------------------------------------------------ PLY export

\* data[i] of a typed array: undefined outside the array.
ReadByte(data, i) ==
  IF i \in DOMAIN data THEN [defined |-> TRUE, v |-> data[i]]
  ELSE [defined |-> FALSE, v |-> 0]

\* DataView.setUint8(offset, value): ToNumber(undefined) is NaN, stored as 0.
setUint8(b) == IF b.defined THEN b.v % 256 ELSE 0

\* Number of iterations of for (let i = 0; i < n; i++).
Loop(n) == IF n > 0 THEN n ELSE 0

\* Number of characters of `${n}` for an integer n.
RECURSIVE DigitsLen(_)
DigitsLen(n) ==
  IF n < 0 THEN 1 + DigitsLen(-n)
  ELSE IF n < 10 THEN 1 ELSE 1 + DigitsLen(n \div 10)

\* createPLYHeaderASCII / createPLYHeaderBinary: the format line, the vertex
\* count and the number of bytes of the ten lines with their newlines.
createPLYHeaderASCII(totalPoints) ==
  [format |-> "ascii 1.0", vertex |-> totalPoints,
   bytes |-> 3 + 16 + (15 + DigitsLen(totalPoints)) + 3 * 16
             + 18 + 20 + 19 + 10 + 10]

createPLYHeaderBinary(totalPoints) ==
  [format |-> "binary_little_endian 1.0", vertex |-> totalPoints,
   bytes |-> 3 + 31 + (15 + DigitsLen(totalPoints)) + 3 * 16
             + 18 + 20 + 19 + 10 + 10]

\* The i-th pass (from 1) through the exporters' three nested loops: logical
\* frame, row, column, with the position (doubled) and the colour index.
PLYLoopPoint(data, i) ==
  LET W == Loop(data.width)
      H == Loop(data.height)
      k == i - 1
      logicalFrame == k \div (W * H)
      y == (k \div W) % H
      x == k % W
      actualFrame ==
        calcActualFrameIndex(logicalFrame, data.writeIndex, data.frames)
      pixelIdx == calcPixelIndex(x, y, data.width)
  IN [logicalFrame |-> logicalFrame, y |-> y, x |-> x,
      x2 |-> 2 * x - calcHalf2(data.width),
      y2 |-> calcHalf2(data.height) - 2 * y,
      z2 |-> calcZPosition2(logicalFrame, data.frames, data.spacing),
      colorIdx |-> calcColorDataIndex(actualFrame, pixelIdx,
                                      data.width * data.height)]

PLYLoopCount(data) == Loop(data.frames) * Loop(data.height) * Loop(data.width)

\* createPLYDataASCII(data): the header and the lines "x y z r g b"; a colour
\* read outside colorData prints as "undefined".
createPLYDataASCII(data) ==
  [header |-> createPLYHeaderASCII(
                calcTotalPoints(data.width, data.height, data.frames)),
   lines |-> [i \in 1..PLYLoopCount(data) |->
      LET p == PLYLoopPoint(data, i)
      IN [x2 |-> p.x2, y2 |-> p.y2, z2 |-> p.z2,
          r |-> ReadByte(data.colorData, p.colorIdx),
          g |-> ReadByte(data.colorData, p.colorIdx + 1),
          b |-> ReadByte(data.colorData, p.colorIdx + 2)]]]

\* createPLYDataBinary(data): new ArrayBuffer(totalPoints * 15) throws a
\* RangeError for a negative size; otherwise the records written, the bytes
\* they occupy (three float32 and three uint8 each) and the combined length.
createPLYDataBinary(data) ==
  LET totalPoints == calcTotalPoints(data.width, data.height, data.frames)
      header == createPLYHeaderBinary(totalPoints)
      records == [i \in 1..PLYLoopCount(data) |->
        LET p == PLYLoopPoint(data, i)
        IN [x2 |-> p.x2, y2 |-> p.y2, z2 |-> p.z2,
            r |-> setUint8(ReadByte(data.colorData, p.colorIdx)),
            g |-> setUint8(ReadByte(data.colorData, p.colorIdx + 1)),
            b |-> setUint8(ReadByte(data.colorData, p.colorIdx + 2))]]
  IN IF totalPoints < 0
     THEN [thrown |-> TRUE, header |-> header, records |-> << >>,
           written |-> 0, byteLength |-> 0]
     ELSE [thrown |-> FALSE, header |-> header, records |-> records,
           written |-> Len(records) * (4 + 4 + 4 + 1 + 1 + 1),
           byteLength |-> header.bytes + totalPoints * BYTES_PER_POINT]

\* The PLYExportData that savePLY / savePLYBinary pass to the exporter.
PLYExportData(s) ==
  [colorData |-> s.colorData, width |-> s.targetW, height |-> s.targetH,
   frames |-> s.targetFrames, spacing |-> s.spacing,
   writeIndex |-> s.writeIndex]

\* savePLY(): ASCII export and download, then the status line.
savePLY(s) ==
  IF s.colorData = NoBuffer \/ s.points = 0 THEN setStatus(s, "noData")
  ELSE setStatus(s, "savedAscii")

\* savePLYBinary(): a RangeError of the exporter leaves the handler before
\* the download and the status line.
savePLYBinary(s) ==
  IF s.colorData = NoBuffer \/ s.points = 0 THEN setStatus(s, "noData")
  ELSE IF createPLYDataBinary(PLYExportData(s)).thrown THEN s
  ELSE setStatus(s, "savedBinary")

\* ------------------------------------------------------------------- Init

NoProbe == [fn |-> "none", T |-> 0, w |-> 0, x |-> 0, spacing |-> 0, out |-> 0]

PageInit ==
  /\ mounted = TRUE /\ videoRef = TRUE /\ hiddenCanvasRef = TRUE
  /\ sceneRef = TRUE
  /\ hasRVFC \in BOOLEAN
  /\ targetW = MaxW /\ targetH = MaxH /\ targetFrames = MaxFrames
  /\ isCapturing = FALSE
  /\ status = "pressStart"
  /\ colorData = NoBuffer
  /\ colorTexture = NoTexture
  /\ material = NoMaterial
  /\ points = 0
  /\ writeIndex = 0
  /\ ctxRef = FALSE
  /\ rvfcRef = 0 /\ rafRef = 0
  /\ capturing = FALSE
  /\ frameCount = 0
  /\ mediaStreamRef = 0 /\ videoSrc = 0
  /\ stream = [c \in CallIds |-> "none"]
  /\ calls = [c \in CallIds |-> NoCall]
  /\ pending = << >> /\ running = << >>
  /\ spacing = DEFAULT_SPACING
  /\ extentsRef = [xMinAll |-> 2 * (-DEFAULT_X_MAX),
                   xMaxAll |-> 2 * DEFAULT_X_MAX,
                   yMinAll |-> 2 * (-DEFAULT_Y_MAX),
                   yMaxAll |-> 2 * DEFAULT_Y_MAX,
                   zMinBase |-> 2 * (-DEFAULT_Z_MAX_BASE),
                   zMaxBase |-> 2 * DEFAULT_Z_MAX_BASE]
  /\ slice = [xMin |-> 2 * (-DEFAULT_X_MAX), xMax |-> 2 * DEFAULT_X_MAX,
              yMin |-> 2 * (-DEFAULT_Y_MAX), yMax |-> 2 * DEFAULT_Y_MAX,
              zMin |-> 2 * (-DEFAULT_Z_MAX), zMax |-> 2 * DEFAULT_Z_MAX]

\* None of the other components is looked at.
NoComp == [kind |-> "none"]

Init == PageInit /\ probe = NoProbe /\ comp = NoComp

\* ---------------------------------------------------------------- actions

\* A rejected play() promise resumes its startCapture call in a microtask,
\* before any other task of the page runs.
Settled == \A c \in CallIds : calls[c].phase # "playAbort"

\* User events run as tasks of their own: never inside a frame's callbacks.
UserTurn == mounted /\ running = << >> /\ Settled

\* The W / H / Frames inputs (disabled while isCapturing).
SetTargetW(v) ==
  /\ UserTurn /\ ~isCapturing /\ v # targetW
  /\ Apply([St EXCEPT !.targetW = v])

SetTargetH(v) ==
  /\ UserTurn /\ ~isCapturing /\ v # targetH
  /\ Apply([St EXCEPT !.targetH = v])

SetTargetFrames(v) ==
  /\ UserTurn /\ ~isCapturing /\ v # targetFrames
  /\ Apply([St EXCEPT !.targetFrames = v])

\* Start button: startCapture() up to its first await.
ClickStart(c) ==
  /\ UserTurn /\ ~isCapturing
  /\ calls[c].phase = "none"
  /\ \A b \in CallIds : b < c => calls[b].phase # "none"
  /\ ~capturing
  /\ Apply([setStatus(St, "requesting") EXCEPT
       !.calls[c] = [phase |-> "gum", W |-> targetW, H |-> targetH,
                     F |-> targetFrames, S |-> spacing]])

\* getUserMedia resolves with a fresh stream for call c.
GumResolve(c) ==
  /\ Settled /\ calls[c].phase = "gum"
  /\ LET s1 == [St EXCEPT !.mediaStreamRef = c, !.stream[c] = "live"]
     IN IF ~s1.videoRef
        THEN Apply(Collect(catchError(s1, c, "errorNoVideo")))
        ELSE Apply(abortPlay([s1 EXCEPT !.videoSrc = c,
                                        !.calls[c].phase = "play"], c))

\* getUserMedia rejects (permission denied, no device).
GumReject(c) ==
  /\ Settled /\ calls[c].phase = "gum"
  /\ Apply(Collect(catchError(St, c, "errorGetUserMedia")))

\* video.play() resolves: initialise, raise the flag, start the loop.
PlayResolve(c, ctxOk) ==
  /\ Settled /\ calls[c].phase = "play"
  /\ LET r == initLivePoints(St, c, ctxOk)
     IN IF ~r.ok
        THEN Apply(Collect(catchError(r.st, c, "errorInit")))
        ELSE LET s1 == [r.st EXCEPT !.capturing = TRUE]
                 s2 == setIsCapturing(s1, TRUE)
                 s3 == setStatus(s2, "started")
                 s4 == [s3 EXCEPT !.calls[c].phase = "ok"]
             IN Apply(Collect(scheduleNextFrame(s4, c)))

\* video.play() rejects, of itself or because the element was reloaded/paused.
PlayReject(c) ==
  /\ \/ calls[c].phase = "playAbort"
     \/ Settled /\ calls[c].phase = "play"
  /\ Apply(Collect(catchError(St, c, "errorPlay")))

\* Stop button.
ClickStop ==
  /\ UserTurn /\ isCapturing
  /\ Apply(Collect(stopCapture(St, FALSE, FALSE)))

\* "Reset points" button.
ClickReset ==
  /\ UserTurn /\ ~isCapturing
  /\ colorData # NoBuffer
  /\ Apply(setStatus(disposePoints(St), "pointsCleared"))

\* "PLY (ASCII)" and "PLY (Binary)" buttons (disabled without a colour buffer).
SavePLY ==
  /\ UserTurn /\ colorData # NoBuffer
  /\ Apply(savePLY(St))

SavePLYBinary ==
  /\ UserTurn /\ colorData # NoBuffer
  /\ Apply(savePLYBinary(St))

\* An unmounted component's React state is gone.
Discard(s) ==
  [s EXCEPT !.targetW = 0, !.targetH = 0, !.targetFrames = 0,
            !.isCapturing = FALSE, !.status = "unmounted"]

\* Unmount: React detaches the DOM refs and runs the mount effect's cleanup
\* (stopCapture, disposePoints, scene teardown); detachedFirst is whether the
\* refs are already null when the cleanup runs.
Unmount(detachedFirst) ==
  /\ UserTurn
  /\ LET s0 == [St EXCEPT !.mounted = FALSE]
         s1 == IF detachedFirst
               THEN [s0 EXCEPT !.videoRef = FALSE, !.hiddenCanvasRef = FALSE]
               ELSE s0
         s2 == stopCapture(s1, TRUE, TRUE)
         s3 == disposePoints(s2)
     IN Apply(Collect(Discard([s3 EXCEPT !.videoRef = FALSE,
                                         !.hiddenCanvasRef = FALSE,
                                         !.sceneRef = FALSE])))

\* A new frame is presented: the registered callbacks become the batch to run.
\* requestVideoFrameCallback needs a playing live stream; the
\* requestAnimationFrame fallback fires on every display frame.
DeliverFrame ==
  /\ Settled /\ running = << >> /\ pending # << >>
  /\ hasRVFC => (videoSrc # 0 /\ stream[videoSrc] = "live")
  /\ Apply([St EXCEPT !.running = pending, !.pending = << >>])

\* The next callback of the batch: processFrame(); scheduleNextFrame().
RunCallback ==
  /\ Settled /\ running # << >>
  /\ LET c == Head(running)
         s1 == [St EXCEPT !.running = Tail(running)]
     IN /\ Ticks(s1) => frameCount < MaxTicks
        /\ Apply(Collect(scheduleNextFrame(processFrame(s1, c), c)))

\* The render loop uploads a dirty texture.
Render ==
  /\ Settled /\ sceneRef /\ colorTexture.exists /\ colorTexture.needsUpdate
  /\ Apply([St EXCEPT !.colorTexture.needsUpdate = FALSE])

\* The page with up to MaxCalls startCapture calls and valid widths (and a
\* zero frame count) in the inputs.  The layout of the colour buffer depends
\* on targetW and targetH only through their product, so the height keeps
\* its initial value here and is varied in SpecDims.
Next ==
  \/ \E v \in WValues : SetTargetW(v)
  \/ \E v \in FValues : SetTargetFrames(v)
  \/ \E c \in CallIds : ClickStart(c)
  \/ \E c \in CallIds : GumResolve(c)
  \/ \E c \in CallIds : GumReject(c)
  \/ \E c \in CallIds, ctxOk \in BOOLEAN : PlayResolve(c, ctxOk)
  \/ \E c \in CallIds : PlayReject(c)
  \/ ClickStop
  \/ ClickReset
  \/ \E d \in BOOLEAN : Unmount(d)
  \/ DeliverFrame
  \/ RunCallback
  \/ Render

Spec == Init /\ [][Next]_vars

\* The same page with one startCapture call, arbitrary integers in the
\* W / H / Frames inputs and the PLY export buttons.
NextDims ==
  \/ \E v \in AnyW : SetTargetW(v)
  \/ \E v \in AnyH : SetTargetH(v)
  \/ \E v \in AnyF : SetTargetFrames(v)
  \/ ClickStart(1)
  \/ GumResolve(1)
  \/ GumReject(1)
  \/ \E ctxOk \in BOOLEAN : PlayResolve(1, ctxOk)
  \/ PlayReject(1)
  \/ ClickStop
  \/ ClickReset
  \/ SavePLY
  \/ SavePLYBinary
  \/ \E d \in BOOLEAN : Unmount(d)
  \/ DeliverFrame
  \/ RunCallback
  \/ Render

SpecDims == Init /\ [][NextDims]_vars

\* =========================================================================
\* The ring buffer as its description reads it
\* =========================================================================

\* The buffer in use: totalFrames slots of frameStride bytes each, as the
\* material's uniforms record them at initialisation.
HasBuffer == colorData # NoBuffer /\ material.exists
totalFrames == material.uTotalFrames
frameStride == material.uPixelsPerFrame * 4
Slots == 0..(totalFrames - 1)
SlotBytes(slot) == (slot * frameStride)..((slot + 1) * frameStride - 1)

\* Buffer data holds, in the given slot, the frame captured at tick t.
SlotHolds(data, slot, t) ==
  /\ SlotBytes(slot) \subseteq DOMAIN data
  /\ \A i \in SlotBytes(slot) :
       data[i] = IF (i - slot * frameStride) % 4 = 3 THEN ALPHA_OPAQUE
                 ELSE VideoByte(t, i - slot * frameStride)

SlotEmpty(data, slot) ==
  /\ SlotBytes(slot) \subseteq DOMAIN data
  /\ \A i \in SlotBytes(slot) : data[i] = 0

\* The tick at which the slot was last written: 0 for a never-written slot,
\* -1 when the slot holds no whole frame.
SlotTick(data, slot) ==
  IF SlotEmpty(data, slot) THEN 0
  ELSE IF \E t \in 1..(MaxTicks + 1) : SlotHolds(data, slot, t)
       THEN CHOOSE t \in 1..(MaxTicks + 1) : SlotHolds(data, slot, t)
       ELSE -1

\* The capture loops that have a callback registered.
RegisteredIn(p, r) == {c \in CallIds : InSeq(p, c) \/ InSeq(r, c)}
Registered == RegisteredIn(pending, running)

\* The bytes a state change altered.
Changed(before, after) ==
  IF DOMAIN before # DOMAIN after THEN DOMAIN before \cup DOMAIN after
  ELSE {i \in DOMAIN before : before[i] # after[i]}

\* C1: whenever a ring buffer exists, writeIndex is one of its slots, no slot
\* was written less recently than slot writeIndex (a never-written slot being
\* the oldest), and the next tick of any registered capture callback writes
\* that slot.
C1_WriteIndexIsOldest ==
  HasBuffer =>
    /\ writeIndex \in Slots
    /\ \A slot \in Slots : SlotTick(colorData, slot) >= 0
    /\ \A slot \in Slots :
         SlotTick(colorData, writeIndex) <= SlotTick(colorData, slot)
    /\ \A c \in Registered :
         Ticks(St) =>
           /\ SlotHolds(processFrame(St, c).colorData, writeIndex,
                        frameCount + 1)
           /\ Changed(colorData, processFrame(St, c).colorData)
                \subseteq SlotBytes(writeIndex)

\* C2: once k >= N ticks were captured since initialisation, logical index L
\* addresses the frame of tick k - N + 1 + L, and the next tick changes no
\* byte outside the slot of the oldest frame.
C2_LogicalAgeAddressing ==
  (HasBuffer /\ totalFrames >= 1 /\ frameCount >= totalFrames) =>
    /\ \A L \in Slots :
         SlotHolds(colorData,
                   calcActualFrameIndex(L, writeIndex, totalFrames),
                   frameCount - totalFrames + 1 + L)
    /\ \A c \in Registered :
         Ticks(St) =>
           Changed(colorData, processFrame(St, c).colorData) \subseteq
             SlotBytes(calcActualFrameIndex(0, writeIndex, totalFrames))

\* C3: a capture tick with write cursor w stores the new frame in slot w,
\* leaves every other byte as it was, marks the texture dirty and leaves
\* writeIndex = (w + 1) mod totalFrames.
C3_TickEffect ==
  HasBuffer =>
    \A c \in Registered :
      Ticks(St) =>
        LET after == processFrame(St, c)
        IN /\ SlotHolds(after.colorData, writeIndex, frameCount + 1)
           /\ Changed(colorData, after.colorData) \subseteq SlotBytes(writeIndex)
           /\ after.colorTexture.needsUpdate
           /\ totalFrames >= 1
           /\ after.writeIndex = (writeIndex + 1) % totalFrames

\* C6: at any moment at most one capture callback is registered, whether it
\* waits for the next frame or belongs to the batch being run.
C6_AtMostOneCallback == Len(pending) + Len(running) <= 1

\* C7: while the capturing flag is down (stopCapture has run and no later
\* startCapture has succeeded) no callback handle is left registered, and a
\* callback that runs all the same changes nothing and registers nothing.
C7_StoppedMeansCancelled ==
  ~capturing =>
    /\ Registered = {}
    /\ \A c \in CallIds :
         scheduleNextFrame(processFrame(St, c), c) = St

\* The startCapture calls that are between their first await and their end.
InFlight == {c \in CallIds : calls[c].phase \in {"gum", "play", "playAbort"}}

\* C8: once capture is stopped and no startCapture call is in flight, no
\* MediaStream handed to the page has a live track.
C8_TracksReleased ==
  (~capturing /\ InFlight = {}) => \A c \in CallIds : stream[c] # "live"

ErrorStatus == {"errorGetUserMedia", "errorPlay", "errorInit", "errorNoVideo"}

\* C9: the step in which a startCapture call fails ends that call in its
\* catch block (nothing escapes), leaves an error status on a mounted page,
\* leaves the capturing flag down, registers no capture callback and starts
\* no new startCapture call; a failed call stays failed.
C9_StartFailureIsStatusOnly ==
  [][\A c \in CallIds :
       /\ (c \in InFlight /\ calls'[c].phase # calls[c].phase
             /\ calls'[c].phase \notin {"play", "playAbort", "ok"}) =>
            /\ calls'[c].phase = "failed"
            /\ mounted => status' \in ErrorStatus
            /\ ~capturing'
            /\ RegisteredIn(pending', running') \subseteq Registered
            /\ c \notin RegisteredIn(pending', running')
            /\ \A b \in CallIds :
                 calls[b].phase = "none" => calls'[b].phase = "none"
       /\ calls[c].phase = "failed" => calls'[c].phase = "failed"]_vars

\* A startCapture call has failed in initLivePoints: its error is the status,
\* the flag is down and nothing is registered.
C9_Witness ==
  /\ \E c \in CallIds : calls[c].phase = "failed"
  /\ status = "errorInit"
  /\ ~capturing /\ pending = << >> /\ running = << >>

\* C10: initLivePoints called with a width, height or frame count <= 0
\* returns false, sets a status on a mounted page and leaves buffer, texture,
\* material, geometry and cursor as they were.
C10_InvalidDimsRejected ==
  \A c \in CallIds :
    (calls[c].phase = "play"
       /\ (calls[c].W <= 0 \/ calls[c].H <= 0 \/ calls[c].F <= 0)) =>
      \A ctxOk \in BOOLEAN :
        LET r == initLivePoints(St, c, ctxOk)
        IN /\ ~r.ok
           /\ mounted => r.st.status \in {"invalidTarget", "notReady"}
           /\ r.st.colorData = colorData
           /\ r.st.colorTexture = colorTexture
           /\ r.st.material = material
           /\ r.st.points = points
           /\ r.st.writeIndex = writeIndex

\* The step is a Stop click: stopCapture() with default options on a mounted
\* page.
StopStep == isCapturing /\ ~isCapturing' /\ mounted'

\* The step in which startCapture call c succeeds.
StartOk(c) == calls[c].phase = "play" /\ calls'[c].phase = "ok"

\* C11 as stated: whenever capture is stopped (the capturing flag is down)
\* or the page is unmounted, the page references no colour buffer.
C11_DiscardedOnStop ==
  (~capturing \/ ~mounted) => colorData = NoBuffer

\* C11 amended: a colour buffer appears only in the step of a successful
\* start, a Stop click leaves buffer, texture and cursor in place, the
\* reset-points button and the unmount cleanup drop the buffer, and an
\* unmounted page never references one.
C11_BufferLifecycle ==
  [][/\ (colorData = NoBuffer /\ colorData' # NoBuffer) =>
          \E c \in CallIds : StartOk(c)
     /\ StopStep =>
          /\ colorData' = colorData
          /\ colorTexture' = colorTexture
          /\ writeIndex' = writeIndex
          /\ points' = points
     /\ status' = "pointsCleared" => colorData' = NoBuffer
     /\ ~mounted' => colorData' = NoBuffer]_vars

\* Capture was stopped by the Stop button after frames were captured, and
\* the buffer with those frames is still referenced.
C11_Witness ==
  /\ status = "stopped" /\ ~capturing /\ mounted
  /\ colorData # NoBuffer /\ frameCount >= 1
  /\ \E slot \in Slots : SlotTick(colorData, slot) >= 1

\* C12: while the capturing flag is up on a mounted page the W / H / Frames
\* inputs keep their values; a step that is no successful start leaves the
\* geometry alone while capturing; and a successful start of call c leaves a
\* fresh zero-filled buffer of W x H x F x 4 bytes, a texture, a geometry of
\* exactly W x H x F points and writeIndex = 0, for the W, H, F that call read.
C12_StopTheWorldReset ==
  [][/\ (capturing /\ mounted') =>
          /\ targetW' = targetW /\ targetH' = targetH
          /\ targetFrames' = targetFrames
     /\ (capturing /\ capturing' /\ \A c \in CallIds : ~StartOk(c)) =>
          points' = points
     /\ \A c \in CallIds :
          StartOk(c) =>
            /\ DOMAIN colorData' =
                 0..(calls[c].W * calls[c].H * calls[c].F * 4 - 1)
            /\ \A i \in DOMAIN colorData' : colorData'[i] = 0
            /\ colorTexture'.exists /\ colorTexture'.needsUpdate
            /\ points' = calls[c].W * calls[c].H * calls[c].F
            /\ material'.uTotalFrames = calls[c].F
            /\ material'.uPixelsPerFrame = calls[c].W * calls[c].H
            /\ writeIndex' = 0 /\ material'.uWriteIndex = 0
            /\ frameCount' = 0]_vars

\* A second startCapture call has succeeded after the loop of the first one
\* ended: the buffer in use is the fresh one of the second call.
C12_Witness ==
  /\ capturing /\ status = "started" /\ frameCount = 0 /\ writeIndex = 0
  /\ calls[1].phase = "ok" /\ calls[2].phase = "ok"
  /\ calls[1].F = 0 /\ calls[2].F >= 2
  /\ HasBuffer /\ \A i \in DOMAIN colorData : colorData[i] = 0

\* The PLY buttons are enabled and savePLY / savePLYBinary would export.
CanSave == mounted /\ colorData # NoBuffer /\ points # 0

\* The arguments passed to the exporter describe the buffer they come with.
ExportDataConsistent(data) ==
  /\ data.width >= 0 /\ data.height >= 0 /\ data.frames >= 0
  /\ DOMAIN data.colorData =
       0..(data.width * data.height * data.frames * 4 - 1)

\* C13: for the arguments savePLY and savePLYBinary pass, both exporters
\* emit the same number of records, record for record the same position and
\* the same colour bytes, in the order logical frame (z ascending), row (y
\* descending), column (x ascending).
C13_AsciiBinarySameRecords ==
  CanSave =>
    LET a == createPLYDataASCII(PLYExportData(St))
        b == createPLYDataBinary(PLYExportData(St))
    IN /\ ~b.thrown
       /\ Len(a.lines) = Len(b.records)
       /\ \A i \in DOMAIN a.lines :
            /\ a.lines[i].x2 = b.records[i].x2
            /\ a.lines[i].y2 = b.records[i].y2
            /\ a.lines[i].z2 = b.records[i].z2
            /\ a.lines[i].r.defined /\ a.lines[i].r.v = b.records[i].r
            /\ a.lines[i].g.defined /\ a.lines[i].g.v = b.records[i].g
            /\ a.lines[i].b.defined /\ a.lines[i].b.v = b.records[i].b
       /\ \A i, j \in DOMAIN a.lines :
            i < j =>
              \/ a.lines[i].z2 < a.lines[j].z2
              \/ /\ a.lines[i].z2 = a.lines[j].z2
                 /\ \/ a.lines[i].y2 > a.lines[j].y2
                    \/ /\ a.lines[i].y2 = a.lines[j].y2
                       /\ a.lines[i].x2 < a.lines[j].x2

\* C14: a binary export that is produced has header bytes + W x H x F x 15
\* bytes, and every record written occupies 15 bytes of it; for non-negative
\* W, H, F the records fill the data part exactly.
C14_BinaryByteLength ==
  CanSave =>
    LET b == createPLYDataBinary(PLYExportData(St))
    IN ~b.thrown =>
         /\ b.byteLength =
              b.header.bytes + targetW * targetH * targetFrames * 15
         /\ b.written = Len(b.records) * 15
         /\ (targetW >= 0 /\ targetH >= 0 /\ targetFrames >= 0) =>
              b.header.bytes + b.written = b.byteLength

\* A binary export of several points of several frames was saved.
C14_Witness ==
  /\ status = "savedBinary" /\ CanSave
  /\ targetFrames >= 2 /\ targetW >= 2
  /\ Len(createPLYDataBinary(PLYExportData(St)).records) >= 4
  /\ frameCount >= 1

\* C15: in both exports the header's vertex count is the number of records
\* that follow, and every ASCII line has integer colour fields in 0..255.
C15_VertexCountAndFields ==
  CanSave =>
    LET a == createPLYDataASCII(PLYExportData(St))
        b == createPLYDataBinary(PLYExportData(St))
    IN /\ a.header.vertex = Len(a.lines)
       /\ ~b.thrown /\ b.header.vertex = Len(b.records)
       /\ \A i \in DOMAIN a.lines :
            /\ a.lines[i].r.defined /\ a.lines[i].r.v \in 0..255
            /\ a.lines[i].g.defined /\ a.lines[i].g.v \in 0..255
            /\ a.lines[i].b.defined /\ a.lines[i].b.v \in 0..255

\* C19: whenever savePLY / savePLYBinary can run, the W, H, F they pass
\* are those of the buffer (W x H x F x 4 bytes) and every colour index the
\* exporter reads lies inside it.
C19_SaveDimsMatchBuffer ==
  CanSave =>
    /\ DOMAIN colorData = 0..(targetW * targetH * targetFrames * 4 - 1)
    /\ \A i \in 1..PLYLoopCount(PLYExportData(St)) :
         LET p == PLYLoopPoint(PLYExportData(St), i)
         IN p.colorIdx \in DOMAIN colorData
            /\ p.colorIdx + 2 \in DOMAIN colorData

\* C17: with totalFrames = 1 the buffer is one slot: writeIndex is 0 before
\* and after every tick, each tick overwrites slot 0 with the new frame, and
\* logical frame 0, the only one, is the latest captured frame.
C17_SingleSlot ==
  (HasBuffer /\ totalFrames = 1) =>
    /\ writeIndex = 0
    /\ calcActualFrameIndex(0, writeIndex, totalFrames) = 0
    /\ frameCount >= 1 => SlotHolds(colorData, 0, frameCount)
    /\ \A c \in Registered :
         Ticks(St) =>
           LET after == processFrame(St, c)
           IN /\ after.writeIndex = 0
              /\ SlotHolds(after.colorData, 0, frameCount + 1)
              /\ after.frameCount = frameCount + 1

\* =========================================================================
\* Slice ranges: the spacing slider, the slice sliders and re-initialisation
\* =========================================================================

\* Where a slider thumb is dropped: either end of the track or its centre.
Stops == {"min", "centre", "max"}
SpacingValues == 1..MaxSpacing

MathMin(a, b) == IF a < b THEN a ELSE b
MathMax(a, b) == IF a > b THEN a ELSE b

\* utils: clamp(value, min, max)
clamp(value, min, max) == MathMax(min, MathMin(max, value))

\* The value an <input type="range" min max step> reports at a stop: a
\* multiple of the step from min, not above max, and min when max < min.
\* The centre of the track is 0, every range being symmetric.
RangeValue(stop, min, max, step) ==
  IF max < min \/ stop = "min" THEN min
  ELSE IF stop = "max" THEN max - ((max - min) % step)
  ELSE (0 - min) - ((0 - min) % step) + min

\* useEffect on [spacing]: pulls zMin up and zMax down to the legal range.
spacingEffect(s) ==
  LET minLegal == s.extentsRef.zMinBase * s.spacing
      maxLegal == s.extentsRef.zMaxBase * s.spacing
  IN [s EXCEPT !.slice.zMin = IF @ < minLegal THEN minLegal ELSE @,
               !.slice.zMax = IF @ > maxLegal THEN maxLegal ELSE @]

\* Spacing slider: setSpacing, then the effect of the render that follows.
SetSpacing(v) ==
  /\ UserTurn /\ v # spacing
  /\ Apply(spacingEffect([St EXCEPT !.spacing = v]))

\* The six slice sliders.
SetXMin(stop) ==
  /\ UserTurn
  /\ LET v == RangeValue(stop, extentsRef.xMinAll, extentsRef.xMaxAll,
                         XY_STEP2)
     IN Apply([St EXCEPT
       !.slice.xMin = clamp(v, extentsRef.xMinAll, slice.xMax)])

SetXMax(stop) ==
  /\ UserTurn
  /\ LET v == RangeValue(stop, extentsRef.xMinAll, extentsRef.xMaxAll,
                         XY_STEP2)
     IN Apply([St EXCEPT
       !.slice.xMax = clamp(v, slice.xMin, extentsRef.xMaxAll)])

SetYMin(stop) ==
  /\ UserTurn
  /\ LET v == RangeValue(stop, extentsRef.yMinAll, extentsRef.yMaxAll,
                         XY_STEP2)
     IN Apply([St EXCEPT
       !.slice.yMin = clamp(v, extentsRef.yMinAll, slice.yMax)])

SetYMax(stop) ==
  /\ UserTurn
  /\ LET v == RangeValue(stop, extentsRef.yMinAll, extentsRef.yMaxAll,
                         XY_STEP2)
     IN Apply([St EXCEPT
       !.slice.yMax = clamp(v, slice.yMin, extentsRef.yMaxAll)])

SetZMin(stop) ==
  /\ UserTurn
  /\ LET v == RangeValue(stop, extentsRef.zMinBase * spacing,
                         extentsRef.zMaxBase * spacing, Z_STEP2)
     IN Apply([St EXCEPT
       !.slice.zMin = clamp(v, extentsRef.zMinBase * spacing, slice.zMax)])

SetZMax(stop) ==
  /\ UserTurn
  /\ LET v == RangeValue(stop, extentsRef.zMinBase * spacing,
                         extentsRef.zMaxBase * spacing, Z_STEP2)
     IN Apply([St EXCEPT
       !.slice.zMax = clamp(v, slice.zMin, extentsRef.zMaxBase * spacing)])

\* The page with its sliders and one startCapture call, started and stopped
\* without frames arriving; the width and height inputs are left alone.
NextSlice ==
  \/ \E v \in FValues : SetTargetFrames(v)
  \/ ClickStart(1)
  \/ GumResolve(1)
  \/ PlayResolve(1, TRUE)
  \/ ClickStop
  \/ \E v \in SpacingValues : SetSpacing(v)
  \/ \E stop \in Stops : SetXMin(stop)
  \/ \E stop \in Stops : SetXMax(stop)
  \/ \E stop \in Stops : SetYMin(stop)
  \/ \E stop \in Stops : SetYMax(stop)
  \/ \E stop \in Stops : SetZMin(stop)
  \/ \E stop \in Stops : SetZMax(stop)

SpecSlice == Init /\ [][NextSlice]_vars

\* C16: the slice ranges are legal at all times: xMinAll <= xMin <= xMax <=
\* xMaxAll, yMinAll <= yMin <= yMax <= yMaxAll and
\* zMinBase x spacing <= zMin <= zMax <= zMaxBase x spacing.
C16_SliceRangesLegal ==
  /\ extentsRef.xMinAll <= slice.xMin /\ slice.xMin <= slice.xMax
  /\ slice.xMax <= extentsRef.xMaxAll
  /\ extentsRef.yMinAll <= slice.yMin /\ slice.yMin <= slice.yMax
  /\ slice.yMax <= extentsRef.yMaxAll
  /\ extentsRef.zMinBase * spacing <= slice.zMin /\ slice.zMin <= slice.zMax
  /\ slice.zMax <= extentsRef.zMaxBase * spacing

\* The same page restricted to a single startCapture call.
NextSingle ==
  \/ \E v \in WValues : SetTargetW(v)
  \/ \E v \in FValues : SetTargetFrames(v)
  \/ ClickStart(1)
  \/ GumResolve(1)
  \/ GumReject(1)
  \/ \E ctxOk \in BOOLEAN : PlayResolve(1, ctxOk)
  \/ PlayReject(1)
  \/ ClickStop
  \/ ClickReset
  \/ \E d \in BOOLEAN : Unmount(d)
  \/ DeliverFrame
  \/ RunCallback
  \/ Render

SpecSingle == Init /\ [][NextSingle]_vars

\* =========================================================================
\* The index helpers on their own: every input within the bounds is drawn at
\* the start, and one helper is evaluated on it.
\* =========================================================================

ProbeInputs ==
  {[fn |-> "input", T |-> T, w |-> w, x |-> x, spacing |-> sp, out |-> 0] :
     T \in 1..MaxT, w \in 0..(MaxT - 1), x \in 0..(MaxT - 1),
     sp \in 1..MaxSpacing}

InitIndex ==
  /\ PageInit
  /\ probe \in {p \in ProbeInputs : p.w < p.T /\ p.x < p.T}
  /\ comp = NoComp

Eval(fn, out) ==
  /\ probe.fn = "input"
  /\ probe' = [probe EXCEPT !.fn = fn, !.out = out]
  /\ UNCHANGED <<pageVars, comp>>

\* utils: calcActualFrameIndex(logicalFrame = x, writeIndex = w, totalFrames = T)
EvalActualFrameIndex ==
  Eval("calcActualFrameIndex", calcActualFrameIndex(probe.x, probe.w, probe.T))

\* vertex shader: adjustedFrame of the point whose aFrameIndex is slot x
EvalAdjustedFrame ==
  Eval("adjustedFrame", adjustedFrame(probe.x, probe.w, probe.T))

\* vertex shader: (twice) the z position of the point whose aFrameIndex is x
EvalShaderZ ==
  Eval("zPos", shaderZPos2(probe.x, probe.w, probe.T, probe.spacing))

\* exporter: (twice) the z written for logical frame x
EvalExportZ ==
  Eval("calcZPosition", calcZPosition2(probe.x, probe.T, probe.spacing))

\* C4: for T >= 1 and w, s in [0, T) the shader's adjustedFrame(s) is a slot
\* age in [0, T), 0 for slot w and T - 1 for slot (w - 1) mod T; it inverts
\* calcActualFrameIndex in both directions; and the shader's z of slot s is
\* the z the exporter writes for the logical frame it reads from slot s,
\* increasing with the age position.
C4_AdjustedFrameInvertsActual ==
  /\ probe.fn = "adjustedFrame" =>
       /\ probe.out \in 0..(probe.T - 1)
       /\ probe.out = (probe.x - probe.w + probe.T) % probe.T
       /\ calcActualFrameIndex(probe.out, probe.w, probe.T) = probe.x
       /\ probe.x = probe.w => probe.out = 0
       /\ probe.x = (probe.w - 1) % probe.T => probe.out = probe.T - 1
  /\ probe.fn = "calcActualFrameIndex" =>
       adjustedFrame(probe.out, probe.w, probe.T) = probe.x
  /\ probe.fn = "zPos" =>
       /\ probe.out =
            calcZPosition2(adjustedFrame(probe.x, probe.w, probe.T),
                           probe.T, probe.spacing)
       /\ \A y \in 0..(probe.T - 1) :
            adjustedFrame(probe.x, probe.w, probe.T)
              < adjustedFrame(y, probe.w, probe.T)
            => probe.out < shaderZPos2(y, probe.w, probe.T, probe.spacing)

\* The most recently written slot (w - 1) of a buffer with the cursor in the
\* middle is given the last position.
C4_Witness ==
  /\ probe.fn = "adjustedFrame"
  /\ probe.T >= 3 /\ probe.w = 2 /\ probe.x = 1
  /\ probe.out = probe.T - 1

\* C5: for T >= 1 and w, L in [0, T), calcActualFrameIndex(L, w, T) is
\* (w + L) mod T, and for that w it maps [0, T) one-to-one onto [0, T).
C5_ActualFrameIndexBijection ==
  probe.fn = "calcActualFrameIndex" =>
    /\ probe.out = (probe.w + probe.x) % probe.T
    /\ {calcActualFrameIndex(L, probe.w, probe.T) : L \in 0..(probe.T - 1)}
         = 0..(probe.T - 1)
    /\ \A L \in 0..(probe.T - 1) :
         calcActualFrameIndex(L, probe.w, probe.T) = probe.out => L = probe.x

\* A logical frame whose slot lies past the end of the buffer wraps around.
C5_Witness ==
  /\ probe.fn = "calcActualFrameIndex"
  /\ probe.T >= 3 /\ probe.w + probe.x >= probe.T
  /\ probe.out = probe.w + probe.x - probe.T

\* utils: (twice) calcHalf(size = T)
EvalHalf ==
  Eval("calcHalf", calcHalf2(probe.T))

\* C18: for every positive integer size, calcHalf(size) = (size - 1) / 2
\* (twice the value is size - 1, so it is a half-integer for even sizes and
\* calcHalf(128) = 63.5), which centres the indices 0 .. size - 1 on zero.
C18_HalfIsCentre ==
  /\ probe.fn = "calcHalf" =>
       /\ probe.out = probe.T - 1
       /\ probe.T % 2 = 0 => probe.out % 2 = 1
       /\ (2 * 0 - probe.out) + (2 * (probe.T - 1) - probe.out) = 0
  /\ calcHalf2(128) = 127

\* The half of an even size, which is not a whole number (calcHalf(4) = 1.5).
C18_Witness ==
  /\ probe.fn = "calcHalf" /\ probe.T = 4 /\ probe.out = 3

NextIndex ==
  \/ EvalHalf
  \/ EvalActualFrameIndex
  \/ EvalAdjustedFrame
  \/ EvalShaderZ
  \/ EvalExportZ

SpecIndex == InitIndex /\ [][NextIndex]_vars

\* =========================================================================
\* Surface page: the tile grid of the colour texture
\* =========================================================================

MaxTileW == 3
MaxTileH == 3
MaxTileF == 4
MaxTexSize == 6

\* JavaScript numbers that need not be integers: a finite integer, an
\* infinity (v is its sign) or NaN.
Num(n) == [k |-> "num", v |-> n]
PosInf == [k |-> "inf", v |-> 1]
NegInf == [k |-> "inf", v |-> -1]
NaN == [k |-> "nan", v |-> 0]

Sign(n) == IF n > 0 THEN 1 ELSE IF n < 0 THEN -1 ELSE 0

\* floor(a / b) for integers a and b # 0.
FloorDiv(a, b) ==
  LET q == Abs(a) \div Abs(b)
  IN IF Sign(a) * Sign(b) >= 0 THEN q
     ELSE IF Abs(a) % Abs(b) = 0 THEN -q ELSE -q - 1

DivByZero(a) == IF a > 0 THEN PosInf ELSE IF a < 0 THEN NegInf ELSE NaN

\* Math.floor(a / b) and Math.ceil(a / b)
MathFloorDiv(a, b) == IF b = 0 THEN DivByZero(a) ELSE Num(FloorDiv(a, b))
MathCeilDiv(a, b) == IF b = 0 THEN DivByZero(a) ELSE Num(-FloorDiv(-a, b))

\* n * r and r <= n for an integer n and a JavaScript number r.
Times(n, r) ==
  IF r.k = "num" THEN Num(n * r.v)
  ELSE IF r.k = "nan" \/ n = 0 THEN NaN
  ELSE [k |-> "inf", v |-> Sign(n) * r.v]

LessEq(r, n) == (r.k = "num" /\ r.v <= n) \/ (r.k = "inf" /\ r.v = -1)

\* calcTileLayout(frames, frameWidth, maxTextureSize), maxTextureSize > 0:
\* maxCols is +Infinity for frameWidth = 0, and cols is then frames.
calcTileLayout(frames, frameWidth, maxTextureSize) ==
  LET maxCols == MathFloorDiv(maxTextureSize, frameWidth)
      cols == IF maxCols.k = "num" THEN MathMin(frames, maxCols.v) ELSE frames
  IN [cols |-> cols, rows |-> MathCeilDiv(frames, cols)]

calcTextureSize(width, height, frames, maxSize) ==
  LET layout == calcTileLayout(frames, width, maxSize)
      texWidth == width * layout.cols
      texHeight == Times(height, layout.rows)
  IN [texWidth |-> texWidth, texHeight |-> texHeight,
      cols |-> layout.cols, rows |-> layout.rows,
      valid |-> texWidth <= maxSize /\ LessEq(texHeight, maxSize)]

\* generateSurfaceIndices(width, height, frames).length
surfacePointCount(width, height, frames) ==
  2 * Loop(height) * Loop(width)
  + 2 * Loop(frames - 2) * Loop(width)
  + 2 * Loop(frames - 2) * Loop(height - 2)

\* initSurfacePoints() gets past its texture check, its point count check
\* and the allocation of the colour buffer (a negative or infinite length
\* throws a RangeError, NaN gives an empty buffer).
initSurfacePoints(width, height, frames, maxSize) ==
  LET texInfo == calcTextureSize(width, height, frames, maxSize)
      length == Times(texInfo.texWidth * 4, texInfo.texHeight)
  IN /\ texInfo.valid
     /\ surfacePointCount(width, height, frames) > 0
     /\ length.k # "inf"
     /\ length.k = "num" => length.v >= 0

\* processFrame: the tile of the frame written at writeIndex = wIndex ...
processFrameTile(wIndex, cols) ==
  [col |-> IF cols = 0 THEN NaN ELSE Num(JSRem(wIndex, cols)),
   row |-> MathFloorDiv(wIndex, cols)]

\* ... and the texel that pixel (x, y) of that frame is stored at.
processFrameTexel(wIndex, cols, texWidth, frameW, frameH, x, y) ==
  LET tile == processFrameTile(wIndex, cols)
      dstX == tile.col.v * frameW + x
      dstY == tile.row.v * frameH + y
  IN [x |-> dstX, y |-> dstY, dstBase |-> (dstY * texWidth + dstX) * 4]

\* The colour-buffer offsets processFrame stores a frame at.
processFrameBytes(wIndex, cols, texWidth, frameW, frameH) ==
  LET tile == processFrameTile(wIndex, cols)
  IN IF tile.col.k # "num" \/ tile.row.k # "num" THEN {}
     ELSE {processFrameTexel(wIndex, cols, texWidth, frameW, frameH,
                             x, y).dstBase :
             x \in 0..(frameW - 1), y \in 0..(frameH - 1)}

\* Vertex shader: the tile of a physical frame, mod(x, y) being
\* x - y * floor(x / y) ...
shaderTile(physicalFrame, uTileCols) ==
  [col |-> IF uTileCols = 0 THEN NaN
           ELSE Num(physicalFrame
                      - uTileCols * FloorDiv(physicalFrame, uTileCols)),
   row |-> MathFloorDiv(physicalFrame, uTileCols)]

\* ... and the texel sampled for the point of pixel aPixelIndex, for a
\* positive frame width: the texel that holds (texU, texV).
shaderTexel(physicalFrame, aPixelIndex, uTileCols, uFrameWidth, uFrameHeight) ==
  LET tile == shaderTile(physicalFrame, uTileCols)
  IN [x |-> tile.col.v * uFrameWidth + GLSLMod(aPixelIndex, uFrameWidth),
      y |-> tile.row.v * uFrameHeight + (aPixelIndex \div uFrameWidth)]

\* The W / H / Frames inputs of the surface page take any integer; f is the
\* write cursor or physical frame looked at.
TileInputs ==
  {[fn |-> "input", width |-> w, height |-> h, frames |-> n, maxSize |-> m,
    f |-> f, out |-> 0] :
     w \in -1..MaxTileW, h \in -1..MaxTileH, n \in -1..MaxTileF,
     m \in 1..MaxTexSize, f \in 0..(MaxTileF - 1)}

InitTile ==
  /\ PageInit
  /\ probe \in {p \in TileInputs : p.f = 0 \/ p.f < p.frames}
  /\ comp = NoComp

EvalTextureSize ==
  Eval("calcTextureSize",
       calcTextureSize(probe.width, probe.height, probe.frames, probe.maxSize))

\* A capture tick with writeIndex = f, after a successful initialisation.
EvalProcessFrame ==
  /\ initSurfacePoints(probe.width, probe.height, probe.frames, probe.maxSize)
  /\ Eval("processFrame",
          processFrameTile(probe.f,
            calcTextureSize(probe.width, probe.height, probe.frames,
                            probe.maxSize).cols))

\* The shader run for a point of physical frame f.
EvalShaderTile ==
  /\ initSurfacePoints(probe.width, probe.height, probe.frames, probe.maxSize)
  /\ Eval("shaderTile",
          shaderTile(probe.f,
            calcTextureSize(probe.width, probe.height, probe.frames,
                            probe.maxSize).cols))

NextTile ==
  \/ EvalTextureSize
  \/ EvalProcessFrame
  \/ EvalShaderTile

SpecTile == InitTile /\ [][NextTile]_vars

\* C20: when calcTextureSize reports valid, cols >= 1 and cols x rows >=
\* frames; every physical frame f in [0, frames) is written to tile
\* (f mod cols, floor(f / cols)), each of its texels inside the texWidth x
\* texHeight texture; distinct frames share no byte of the buffer; and the
\* shader samples each pixel of frame f at the texel it was written to.
C20_TilesInsideAndDisjoint ==
  (probe.fn = "calcTextureSize" /\ probe.out.valid) =>
    LET t == probe.out
        W == probe.width
        H == probe.height
        F == probe.frames
    IN /\ t.cols >= 1
       /\ t.rows.k = "num" /\ t.cols * t.rows.v >= F
       /\ t.texHeight.k = "num"
       /\ \A f \in 0..(F - 1) :
            /\ processFrameTile(f, t.cols)
                 = [col |-> Num(f % t.cols), row |-> Num(f \div t.cols)]
            /\ shaderTile(f, t.cols) = processFrameTile(f, t.cols)
            /\ \A x \in 0..(W - 1), y \in 0..(H - 1) :
                 LET d == processFrameTexel(f, t.cols, t.texWidth, W, H, x, y)
                     r == shaderTexel(f, y * W + x, t.cols, W, H)
                 IN /\ d.x \in 0..(t.texWidth - 1)
                    /\ d.y \in 0..(t.texHeight.v - 1)
                    /\ r.x = d.x /\ r.y = d.y
       /\ \A f, g \in 0..(F - 1) :
            f # g =>
              processFrameBytes(f, t.cols, t.texWidth, W, H)
                \cap processFrameBytes(g, t.cols, t.texWidth, W, H) = {}

\* =========================================================================
\* Sparse-surface page: the six regions of the colour texture
\* =========================================================================

TEX_WIDTH == 4096
TEX_HEIGHT == 2048
MaxSparse == 3

\* The W / H / Frames inputs take any integer: small ones and ones at the
\* limits of the texture.
SparseValues ==
  (-1..MaxSparse)
    \cup {TEX_HEIGHT - k : k \in 0..MaxSparse}
    \cup {TEX_HEIGHT \div 2 - k : k \in 0..MaxSparse}

FaceTypes == {"front", "back", "left", "right", "top", "bottom"}

getTextureRegions(width, height, frames) ==
  [front |-> [x |-> 0, y |-> 0, width |-> width, height |-> height],
   back |-> [x |-> width, y |-> 0, width |-> width, height |-> height],
   left |-> [x |-> width * 2, y |-> 0, width |-> frames, height |-> height],
   right |-> [x |-> width * 2 + frames, y |-> 0,
              width |-> frames, height |-> height],
   top |-> [x |-> 0, y |-> height, width |-> width, height |-> frames],
   bottom |-> [x |-> width, y |-> height, width |-> width, height |-> frames]]

validateTextureSize(width, height, frames) ==
  LET requiredWidth == MathMax(width * 2 + frames * 2, width * 2)
      requiredHeight == height + frames
  IN [valid |-> requiredWidth <= TEX_WIDTH /\ requiredHeight <= TEX_HEIGHT,
      requiredWidth |-> requiredWidth, requiredHeight |-> requiredHeight]

\* generateSurfacePoints(width, height, frames).length
sparsePointCount(width, height, frames) ==
  2 * Loop(height) * Loop(width)
  + 2 * Loop(frames - 2) * Loop(width)
  + 2 * Loop(frames - 2) * Loop(height - 2)

\* initSparsePoints() gets past its texture check and its point count check.
initSparsePoints(width, height, frames) ==
  /\ validateTextureSize(width, height, frames).valid
  /\ sparsePointCount(width, height, frames) > 0

\* processFrame at write cursor wIndex: the texels (dstX, dstY) it stores for
\* each face, as the rectangle its loops run over.
processFrameWrites(regions, wIndex, activeW, activeH) ==
  [front |-> [x |-> regions.front.x, y |-> regions.front.y,
              width |-> Loop(activeW), height |-> Loop(activeH)],
   top |-> [x |-> regions.top.x, y |-> regions.top.y + wIndex,
            width |-> Loop(activeW), height |-> 1],
   bottom |-> [x |-> regions.bottom.x, y |-> regions.bottom.y + wIndex,
               width |-> Loop(activeW), height |-> 1],
   left |-> [x |-> regions.left.x + wIndex, y |-> regions.left.y,
             width |-> 1, height |-> Loop(activeH)],
   right |-> [x |-> regions.right.x + wIndex, y |-> regions.right.y,
              width |-> 1, height |-> Loop(activeH)],
   back |-> [x |-> regions.back.x, y |-> regions.back.y,
             width |-> IF wIndex = 0 THEN Loop(activeW) ELSE 0,
             height |-> IF wIndex = 0 THEN Loop(activeH) ELSE 0]]

\* Rectangles of texels.
RectEmpty(r) == r.width = 0 \/ r.height = 0
RectInside(r, outer) ==
  /\ r.width >= 0 /\ r.height >= 0
  /\ outer.x <= r.x /\ r.x + r.width <= outer.x + outer.width
  /\ outer.y <= r.y /\ r.y + r.height <= outer.y + outer.height
RectDisjoint(a, b) ==
  \/ a.x + a.width <= b.x \/ b.x + b.width <= a.x
  \/ a.y + a.height <= b.y \/ b.y + b.height <= a.y
Texture == [x |-> 0, y |-> 0, width |-> TEX_WIDTH, height |-> TEX_HEIGHT]

SparseInputs ==
  {[fn |-> "input", width |-> w, height |-> h, frames |-> n, f |-> f,
    out |-> 0] :
     w \in SparseValues, h \in SparseValues, n \in SparseValues,
     f \in 0..MaxSparse}

InitSparse ==
  /\ PageInit
  /\ probe \in {p \in SparseInputs : p.f = 0 \/ p.f < p.frames}
  /\ comp = NoComp

EvalValidate ==
  Eval("validateTextureSize",
       validateTextureSize(probe.width, probe.height, probe.frames))

\* A capture tick with writeIndex = f, after a successful initialisation.
EvalSparseFrame ==
  /\ initSparsePoints(probe.width, probe.height, probe.frames)
  /\ Eval("processFrame",
          processFrameWrites(
            getTextureRegions(probe.width, probe.height, probe.frames),
            probe.f, probe.width, probe.height))

NextSparse ==
  \/ EvalValidate
  \/ EvalSparseFrame

SpecSparse == InitSparse /\ [][NextSparse]_vars

\* C21: when validateTextureSize reports valid, the six regions are pairwise
\* disjoint and inside the TEX_WIDTH x TEX_HEIGHT texture, and what
\* processFrame stores for a face at any writeIndex in [0, frames) lies
\* inside that face's region.
C21_RegionsDisjointAndInside ==
  (probe.fn = "validateTextureSize" /\ probe.out.valid) =>
    LET regions == getTextureRegions(probe.width, probe.height, probe.frames)
    IN /\ \A a \in FaceTypes : RectInside(regions[a], Texture)
       /\ \A a, b \in FaceTypes :
            a # b => RectDisjoint(regions[a], regions[b])
       /\ \A wIndex \in {0, 1, probe.frames - 1} :
            (0 <= wIndex /\ wIndex < probe.frames) =>
              \A a \in FaceTypes :
                LET w == processFrameWrites(regions, wIndex, probe.width,
                                            probe.height)[a]
                IN RectEmpty(w) \/ RectInside(w, regions[a])

\* ------------------------------------------- the faces over a capture run

MaxSparseTicks == 20

\* The page after initSparsePoints() for the given frame count: every region
\* is blank (tick 0); a region or edge line is named by the tick of the
\* frame it holds.
sparseStarted(frames) ==
  [kind |-> "sparse", frames |-> frames, writeIndex |-> 0, frameCount |-> 0,
   front |-> 0, back |-> 0, edges |-> [slot \in 0..(frames - 1) |-> 0]]

\* processFrame of the sparse-surface page, storing the frame of tick t.
sparseProcessFrame(c, t) ==
  [c EXCEPT !.front = t,
            !.edges[c.writeIndex] = t,
            !.back = IF c.writeIndex = 0 THEN t ELSE @,
            !.writeIndex = JSRem(c.writeIndex + 1, c.frames),
            !.frameCount = @ + 1]

\* Vertex shader: the tick of the frame a point of the given face and logical
\* frame is coloured from.
sparseShown(c, face, aLogicalFrame) ==
  IF face = "front" THEN c.front
  ELSE IF face = "back" THEN c.back
  ELSE c.edges[GLSLMod(c.writeIndex + aLogicalFrame, c.frames)]

InitFaces ==
  /\ PageInit /\ probe = NoProbe
  /\ comp \in {sparseStarted(n) : n \in 1..MaxSparse}

SparseTick ==
  /\ comp.frameCount < MaxSparseTicks
  /\ comp' = sparseProcessFrame(comp, comp.frameCount + 1)
  /\ UNCHANGED <<pageVars, probe>>

NextFaces == SparseTick

SpecFaces == InitFaces /\ [][NextFaces]_vars

\* C22: once at least `frames` ticks were captured, the back face shows the
\* oldest stored frame, the one captured frames - 1 ticks before the frame
\* on the front face, which is also what the edges show at logical frame 0.
C22_BackFaceIsOldest ==
  comp.frameCount >= comp.frames =>
    /\ sparseShown(comp, "front", comp.frames - 1) = comp.frameCount
    /\ sparseShown(comp, "top", 0) = comp.frameCount - comp.frames + 1
    /\ sparseShown(comp, "back", 0) = comp.frameCount - comp.frames + 1

\* =========================================================================
\* Ring buffer of the point page against the shifted window of the live page
\* =========================================================================

MaxPixels == 2
MaxRingTicks == 10

\* Pixel p of the frame captured at tick t; tick 0 is the blank buffer.
Pixel(t, p) == [t |-> t, p |-> p]
Blank(n) == [i \in 0..(n - 1) |-> Pixel(0, 0)]

\* Both pages after their initialisation with the same frame size and count,
\* buffers counted in pixels: the point page's colorData and writeIndex, the
\* live page's colors.
ringShiftStarted(pixelsPerFrame, frames) ==
  [kind |-> "ringShift", pixelsPerFrame |-> pixelsPerFrame,
   frames |-> frames, frameCount |-> 0,
   colorData |-> Blank(pixelsPerFrame * frames), writeIndex |-> 0,
   colors |-> Blank(pixelsPerFrame * frames)]

\* Variant of the point page's tick that leaves the write cursor where it is.
ringProcessFrame_noAdvance(c, t) ==
  [c EXCEPT !.colorData =
     [i \in DOMAIN @ |->
        IF i \in (c.writeIndex * c.pixelsPerFrame)
                   ..((c.writeIndex + 1) * c.pixelsPerFrame - 1)
        THEN Pixel(t, i - c.writeIndex * c.pixelsPerFrame) ELSE @[i]]]

\* Point page processFrame: the frame of tick t goes to slot writeIndex.
ringProcessFrame(c, t) ==
  LET rowOffset == c.writeIndex * c.pixelsPerFrame
  IN [c EXCEPT
        !.colorData =
          [i \in DOMAIN @ |->
             IF i \in rowOffset..(rowOffset + c.pixelsPerFrame - 1)
             THEN Pixel(t, i - rowOffset) ELSE @[i]],
        !.writeIndex = JSRem(c.writeIndex + 1, c.frames)]

\* TypedArray.copyWithin(0, start): the elements from start on move to the
\* front, the rest stays.
copyWithin(a, n, start) ==
  [i \in 0..(n - 1) |-> IF i + start < n THEN a[i + start] ELSE a[i]]

\* Live page processFrame: shift by one frame, then store the frame of tick t
\* in the last slot.
liveProcessFrame(c, t) ==
  LET n == c.pixelsPerFrame * c.frames
      sliceStride == c.pixelsPerFrame
      shifted == IF c.frames > 1 THEN copyWithin(c.colors, n, sliceStride)
                 ELSE c.colors
      offset == n - sliceStride
  IN [c EXCEPT
        !.colors = [i \in 0..(n - 1) |->
                      IF i >= offset THEN Pixel(t, i - offset)
                      ELSE shifted[i]]]

\* What each page shows at logical frame L, pixel p.
ringRead(c, L, p) ==
  c.colorData[calcColorDataIndex(
                calcActualFrameIndex(L, c.writeIndex, c.frames),
                p, c.pixelsPerFrame) \div 4]
liveRead(c, L, p) == c.colors[L * c.pixelsPerFrame + p]

InitRingShift ==
  /\ PageInit /\ probe = NoProbe
  /\ comp \in {ringShiftStarted(ppf, n) :
                 ppf \in 1..MaxPixels, n \in 1..MaxFrames}

\* The same video frame reaches the capture loop of both pages.
BothTick ==
  /\ comp.frameCount < MaxRingTicks
  /\ comp' = [liveProcessFrame(
                ringProcessFrame(comp, comp.frameCount + 1),
                comp.frameCount + 1)
              EXCEPT !.frameCount = @ + 1]
  /\ UNCHANGED <<pageVars, probe>>

NextRingShift == BothTick

SpecRingShift == InitRingShift /\ [][NextRingShift]_vars

MaxIdxW == 3
MaxIdxH == 3
MaxIdxF == 3

\* Variant of the four-argument form that strides rows by the height.
calcColorDataIndex4_heightStride(frameIndex, pixelIndex, width, height) ==
  ((frameIndex * height + (pixelIndex \div width)) * height
     + (pixelIndex % width)) * 4

\* calcColorDataIndex(frameIndex, pixelIndex, width, height): the texture
\* layout of width x (height * frames) texels.
calcColorDataIndex4(frameIndex, pixelIndex, width, height) ==
  LET x == JSRem(pixelIndex, width)
      y == FloorDiv(pixelIndex, width)
  IN ((frameIndex * height + y) * width + x) * 4

\* Point page processFrame: dstBase of pixel p of the frame stored at wIndex.
pointDstBase(wIndex, p, pixelsPerFrame) ==
  LET rowOffset == wIndex * pixelsPerFrame * 4
  IN rowOffset + p * 4

\* processFrame of the width x (height * frames) layout: dstBase of pixel
\* (x, y) of the frame stored at wIndex.
layoutDstBase(wIndex, x, y, width, height) ==
  LET frameYOffset == wIndex * height
  IN ((frameYOffset + y) * width + x) * 4

ColorIndexInputs ==
  {[fn |-> "input", width |-> w, height |-> h, frameIndex |-> f,
    x |-> x, y |-> y, out |-> 0] :
     w \in 1..MaxIdxW, h \in 1..MaxIdxH, f \in 0..MaxIdxF,
     x \in 0..(MaxIdxW - 1), y \in 0..(MaxIdxH - 1)}

InitColorIndex ==
  /\ PageInit
  /\ probe \in {p \in ColorIndexInputs : p.x < p.width /\ p.y < p.height}
  /\ comp = NoComp

\* The exporter's call: pixelIdx from calcPixelIndex, pixelsPerFrame = w x h.
EvalLegacyIndex ==
  Eval("calcColorDataIndex3",
       calcColorDataIndex(probe.frameIndex,
                          calcPixelIndex(probe.x, probe.y, probe.width),
                          probe.width * probe.height))

EvalLayoutIndex ==
  Eval("calcColorDataIndex4",
       calcColorDataIndex4(probe.frameIndex,
                           calcPixelIndex(probe.x, probe.y, probe.width),
                           probe.width, probe.height))

EvalPointStore ==
  Eval("pointDstBase",
       pointDstBase(probe.frameIndex, probe.y * probe.width + probe.x,
                    probe.width * probe.height))

EvalLayoutStore ==
  Eval("layoutDstBase",
       layoutDstBase(probe.frameIndex, probe.x, probe.y,
                     probe.width, probe.height))

NextColorIndex ==
  \/ EvalLegacyIndex
  \/ EvalLayoutIndex
  \/ EvalPointStore
  \/ EvalLayoutStore

SpecColorIndex == InitColorIndex /\ [][NextColorIndex]_vars

\* C24: for width, height >= 1, frameIndex >= 0 and pixelIndex = y x width
\* + x, the three-argument and the four-argument calcColorDataIndex agree,
\* and both are the offset at which either processFrame stores pixel (x, y)
\* of slot frameIndex: (frameIndex x width x height + pixelIndex) x 4.
C24_IndexFormsAgree ==
  probe.fn \in {"calcColorDataIndex3", "calcColorDataIndex4",
                "pointDstBase", "layoutDstBase"} =>
    LET pixelIndex == probe.y * probe.width + probe.x
        pixelsPerFrame == probe.width * probe.height
    IN /\ probe.out = (probe.frameIndex * pixelsPerFrame + pixelIndex) * 4
       /\ probe.out = calcColorDataIndex(probe.frameIndex, pixelIndex,
                                         pixelsPerFrame)
       /\ probe.out = calcColorDataIndex4(probe.frameIndex, pixelIndex,
                                          probe.width, probe.height)
       /\ probe.out = pointDstBase(probe.frameIndex, pixelIndex,
                                   pixelsPerFrame)
       /\ probe.out = layoutDstBase(probe.frameIndex, probe.x, probe.y,
                                    probe.width, probe.height)

\* A pixel off the first row and column of a later slot of a frame that is
\* not square, read through the four-argument form.
C24_Witness ==
  /\ probe.fn = "calcColorDataIndex4"
  /\ probe.width = 3 /\ probe.height = 2 /\ probe.frameIndex = 2
  /\ probe.x = 1 /\ probe.y = 1
  /\ probe.out = 64
\* =========================================================================
\* Camera hooks: useWebcamTexture and useSliceStack (WebcamSampler)
\* =========================================================================

MaxRuns == 3

HookNames == {"useWebcamTexture", "useSliceStack"}

\* One run of the camera effect.  gum is the getUserMedia promise, play the
\* video.play() promise, stream the variable the cleanup reads (the closure
\* variable `stream` of useWebcamTexture, `this.stream` of WebcamSampler),
\* track the camera track the run obtained, cleaned whether the cleanup of
\* the run was called.
newEffectRun ==
  [gum |-> "pending", play |-> "none", stream |-> "null", track |-> "none",
   cleaned |-> FALSE]

\* The cleanup returned by the effect: stream?.getTracks().forEach(stop) in
\* useWebcamTexture, sampler.stop() in useSliceStack; only stop() clears the
\* variable.
effectCleanup(hook, r) ==
  IF r.stream = "null"
    THEN [r EXCEPT !.cleaned = TRUE]
    ELSE [r EXCEPT !.cleaned = TRUE, !.track = "stopped",
                   !.stream = IF hook = "useSliceStack" THEN "null" ELSE @]

hookStarted(hook) == [kind |-> "hook", hook |-> hook, mounted |-> FALSE, runs |-> <<>>]

InitHooks ==
  /\ PageInit /\ probe = NoProbe
  /\ comp \in {hookStarted(h) : h \in HookNames}

\* The component mounts: the effect runs for the first time.
HookMount ==
  /\ ~comp.mounted /\ Len(comp.runs) < MaxRuns
  /\ comp' = [comp EXCEPT !.mounted = TRUE, !.runs = Append(@, newEffectRun)]
  /\ UNCHANGED <<pageVars, probe>>

\* A dependency (width, height, fps, horizontalFlip) changes: React calls the
\* cleanup of the previous run and runs the effect again.  The sampler effect
\* of useSliceStack has no dependencies and never re-runs.
HookRerun ==
  /\ comp.mounted /\ comp.hook = "useWebcamTexture" /\ Len(comp.runs) < MaxRuns
  /\ comp' = [comp EXCEPT
       !.runs = Append([@ EXCEPT ![Len(@)] = effectCleanup(comp.hook, @)],
                       newEffectRun)]
  /\ UNCHANGED <<pageVars, probe>>

\* The component unmounts: React calls the cleanup of the last run.
HookUnmount ==
  /\ comp.mounted
  /\ comp' = [comp EXCEPT !.mounted = FALSE,
                          !.runs[Len(comp.runs)] = effectCleanup(comp.hook, @)]
  /\ UNCHANGED <<pageVars, probe>>

\* getUserMedia of run i resolves: the stream is assigned and attached to the
\* video, and video.play() is called.
HookGumResolve(i) ==
  /\ comp.runs[i].gum = "pending"
  /\ comp' = [comp EXCEPT !.runs[i] =
       [@ EXCEPT !.gum = "resolved", !.stream = "set", !.track = "live",
                 !.play = "pending"]]
  /\ UNCHANGED <<pageVars, probe>>

\* getUserMedia of run i rejects: the catch handler only sets a message.
HookGumReject(i) ==
  /\ comp.runs[i].gum = "pending"
  /\ comp' = [comp EXCEPT !.runs[i].gum = "rejected"]
  /\ UNCHANGED <<pageVars, probe>>

\* video.play() of run i settles; the texture or the ready flag is set.
HookPlaySettle(i, ok) ==
  /\ comp.runs[i].play = "pending"
  /\ comp' = [comp EXCEPT !.runs[i].play = IF ok THEN "resolved" ELSE "rejected"]
  /\ UNCHANGED <<pageVars, probe>>

NextHooks ==
  \/ HookMount
  \/ HookRerun
  \/ HookUnmount
  \/ \E i \in 1..MaxRuns : i <= Len(comp.runs) /\ HookGumResolve(i)
  \/ \E i \in 1..MaxRuns : i <= Len(comp.runs) /\ HookGumReject(i)
  \/ \E i \in 1..MaxRuns : \E ok \in BOOLEAN :
       i <= Len(comp.runs) /\ HookPlaySettle(i, ok)

SpecHooks == InitHooks /\ [][NextHooks]_vars

\* C25: once the cleanup of an effect run was called and its getUserMedia
\* promise is settled, the camera track that run obtained is not live; in
\* particular no track is live after the cleanup ran before the promise
\* resolved.
C25_CleanedRunsHoldNoLiveTrack ==
  \A i \in 1..Len(comp.runs) :
    (comp.runs[i].cleaned /\ comp.runs[i].gum # "pending")
      => comp.runs[i].track # "live"
\* =========================================================================
\* Slice stack of the test page: useSliceStack, WebcamSampler, VolumeAtlas3D
\* =========================================================================

MaxSamples == 5
MaxStack == 3
GRID_MIN == 8
GRID_DEFAULT == 100
MAX_SLICES_DEFAULT == 1
INTERVAL_MIN == 33
INTERVAL_DEFAULT == 250
RGBA == 4

\* Values the leva panel offers for cols and rows, intervalMs and maxSlices.
GridValues == {GRID_MIN, GRID_DEFAULT}
IntervalValues == {INTERVAL_MIN, INTERVAL_DEFAULT}
MaxSlicesValues == MAX_SLICES_DEFAULT..MaxStack

\* WebcamSampler.sample(): the RGBA bytes of a samplerCols x samplerRows image,
\* named by the number t of the sample and its byte length.
sample(c, t) == [t |-> t, len |-> c.samplerCols * c.samplerRows * RGBA]

\* The updater passed to setSlices by tick.
pushSlice(prev, copy, maxSlices) ==
  IF Len(prev) < maxSlices
    THEN <<copy>> \o prev
    ELSE <<copy>> \o SubSeq(prev, 1, Len(prev) - 1)

\* The useMemo of VolumeAtlas3D: null without slices, a texture when every
\* data.set(src, z * cols * rows * 4) fits the cols * rows * depth * 4 buffer,
\* and a RangeError thrown by data.set otherwise.
tex3D(slices, cols, rows) ==
  LET depth == Len(slices)
      size == cols * rows * depth * RGBA
  IN IF depth = 0 THEN "null"
     ELSE IF \E z \in 0..(depth - 1) :
               z * cols * rows * RGBA + slices[z + 1].len > size
       THEN "RangeError"
       ELSE "texture"

\* The page re-rendered with its current state.
stackRender(c) == [c EXCEPT !.atlas = tex3D(c.slices, c.cols, c.rows)]

\* tick of the sampling effect; ok is whether sample() returned data.
stackTick(c, ok) ==
  IF ok
    THEN stackRender([c EXCEPT !.taken = @ + 1,
                               !.slices = pushSlice(@, sample(c, c.taken + 1),
                                                    c.maxSlices)])
    ELSE c

\* The test page after mount: the sampler was created with the default grid
\* and start() is pending.
stackMounted ==
  [kind |-> "stack", ready |-> FALSE, cols |-> GRID_DEFAULT,
   rows |-> GRID_DEFAULT, intervalMs |-> INTERVAL_DEFAULT,
   maxSlices |-> MAX_SLICES_DEFAULT, samplerCols |-> GRID_DEFAULT,
   samplerRows |-> GRID_DEFAULT, slices |-> <<>>, taken |-> 0,
   atlas |-> "null"]

InitStack == PageInit /\ probe = NoProbe /\ comp = stackMounted

\* An uncaught RangeError in the render of VolumeAtlas3D unmounts the page.
stackAlive == comp.atlas # "RangeError"

\* sampler.start() resolves: ready is set, the sampling effect runs and calls
\* tick() at once.
StackReady(ok) ==
  /\ stackAlive /\ ~comp.ready
  /\ comp' = stackTick([comp EXCEPT !.ready = TRUE], ok)
  /\ UNCHANGED <<pageVars, probe>>

\* The timer and animation frame of the sampling effect fire.
StackTick(ok) ==
  /\ stackAlive /\ comp.ready /\ comp.taken < MaxSamples
  /\ comp' = stackTick(comp, ok)
  /\ UNCHANGED <<pageVars, probe>>

\* maxSlices or intervalMs is changed in the panel: the sampling effect is
\* cleaned up and, when ready, re-run, which calls tick() at once.
SetMaxSlices(v, ok) ==
  /\ stackAlive /\ v # comp.maxSlices /\ comp.taken < MaxSamples
  /\ comp' = LET c == stackRender([comp EXCEPT !.maxSlices = v])
             IN IF c.ready THEN stackTick(c, ok) ELSE c
  /\ UNCHANGED <<pageVars, probe>>

SetIntervalMs(v, ok) ==
  /\ stackAlive /\ v # comp.intervalMs /\ comp.taken < MaxSamples
  /\ comp' = LET c == stackRender([comp EXCEPT !.intervalMs = v])
             IN IF c.ready THEN stackTick(c, ok) ELSE c
  /\ UNCHANGED <<pageVars, probe>>

\* cols or rows is changed in the panel: the page renders VolumeAtlas3D with
\* the new grid and the slices it has, then the resize effect resizes the
\* sampler.
SetCols(v) ==
  /\ stackAlive /\ v # comp.cols
  /\ comp' = [stackRender([comp EXCEPT !.cols = v]) EXCEPT !.samplerCols = v]
  /\ UNCHANGED <<pageVars, probe>>

SetRows(v) ==
  /\ stackAlive /\ v # comp.rows
  /\ comp' = [stackRender([comp EXCEPT !.rows = v]) EXCEPT !.samplerRows = v]
  /\ UNCHANGED <<pageVars, probe>>

NextStack ==
  \/ \E ok \in BOOLEAN : StackReady(ok)
  \/ \E ok \in BOOLEAN : StackTick(ok)
  \/ \E v \in MaxSlicesValues : \E ok \in BOOLEAN : SetMaxSlices(v, ok)
  \/ \E v \in IntervalValues : \E ok \in BOOLEAN : SetIntervalMs(v, ok)
  \/ \E v \in GridValues : SetCols(v)
  \/ \E v \in GridValues : SetRows(v)

SpecStack == InitStack /\ [][NextStack]_vars

\* C26: the stack never holds more than maxSlices slices, its first slice is
\* the most recent sample and the slices are ordered by decreasing recency.
C26_BoundedNewestFirst ==
  /\ Len(comp.slices) <= comp.maxSlices
  /\ comp.slices # <<>> => comp.slices[1].t = comp.taken
  /\ \A i \in 1..(Len(comp.slices) - 1) : comp.slices[i].t > comp.slices[i + 1].t

\* C27: every slice handed to VolumeAtlas3D has cols * rows * 4 bytes for the
\* current cols and rows, and the texture is built without a RangeError.
C27_SlicesMatchGrid ==
  /\ \A z \in 1..Len(comp.slices) :
       comp.slices[z].len = comp.cols * comp.rows * RGBA
  /\ comp.atlas # "RangeError"
\* =========================================================================
\* Surface point generators of the sparse-surface page and the box page
\* =========================================================================

MaxBoxW == 3
MaxBoxH == 4
MaxBoxF == 4

\* The points pushed by for (a = 0; a < n; a++) for (b = 0; b < m; b++)
\* push(cell(a, b)), in order.
PushLoop(n, m, cell(_, _)) ==
  [k \in 1..(Loop(n) * Loop(m)) |->
     cell((k - 1) \div Loop(m), (k - 1) % Loop(m))]

SurfacePoint(f, px, py) == [logicalFrame |-> f, pixelX |-> px, pixelY |-> py]

\* generateSurfacePoints of the sparse-surface page (the cell of each point).
generateSurfacePoints(width, height, frames) ==
  PushLoop(height, width, LAMBDA py, px : SurfacePoint(0, px, py))
  \o PushLoop(height, width, LAMBDA py, px : SurfacePoint(frames - 1, px, py))
  \o PushLoop(frames - 2, width, LAMBDA i, px : SurfacePoint(i + 1, px, 0))
  \o PushLoop(frames - 2, width,
              LAMBDA i, px : SurfacePoint(i + 1, px, height - 1))
  \o PushLoop(frames - 2, height - 2,
              LAMBDA i, j : SurfacePoint(i + 1, 0, j + 1))
  \o PushLoop(frames - 2, height - 2,
              LAMBDA i, j : SurfacePoint(i + 1, width - 1, j + 1))

SurfaceIndex(f, px, py, width) ==
  [logicalFrame |-> f, pixelIdx |-> py * width + px]

\* generateSurfaceIndices of the box page (logicalFrame and pixelIdx of each
\* point).
generateSurfaceIndices(width, height, frames) ==
  PushLoop(height, width, LAMBDA py, px : SurfaceIndex(0, px, py, width))
  \o PushLoop(height, width,
              LAMBDA py, px : SurfaceIndex(frames - 1, px, py, width))
  \o PushLoop(frames - 2, width,
              LAMBDA i, px : SurfaceIndex(i + 1, px, 0, width))
  \o PushLoop(frames - 2, width,
              LAMBDA i, px : SurfaceIndex(i + 1, px, height - 1, width))
  \o PushLoop(frames - 2, height - 2,
              LAMBDA i, j : SurfaceIndex(i + 1, 0, j + 1, width))
  \o PushLoop(frames - 2, height - 2,
              LAMBDA i, j : SurfaceIndex(i + 1, width - 1, j + 1, width))

\* The surfacePointCount both pages display.
surfacePointCountShown(width, height, frames) ==
  LET frontBack == 2 * width * height
      topBottom == 2 * width * MathMax(0, frames - 2)
      leftRight == 2 * MathMax(0, height - 2) * MathMax(0, frames - 2)
  IN frontBack + topBottom + leftRight

\* The cell of a generated point: pixelIdx = pixelY * width + pixelX.
pointCell(p, width) ==
  IF "pixelIdx" \in DOMAIN p
    THEN SurfacePoint(p.logicalFrame, p.pixelIdx % width, p.pixelIdx \div width)
    ELSE p

\* The cells on the boundary of the width x height x frames box.
BoxBoundary(width, height, frames) ==
  {SurfacePoint(f, px, py) :
     f \in {0, frames - 1}, px \in 0..(width - 1), py \in 0..(height - 1)}
  \cup {SurfacePoint(f, px, py) :
     f \in 0..(frames - 1), px \in {0, width - 1}, py \in 0..(height - 1)}
  \cup {SurfacePoint(f, px, py) :
     f \in 0..(frames - 1), px \in 0..(width - 1), py \in {0, height - 1}}

SurfaceInputs ==
  {[fn |-> "input", width |-> w, height |-> h, frames |-> f, out |-> <<>>] :
     w \in 1..MaxBoxW, h \in 1..MaxBoxH, f \in 1..MaxBoxF}

InitSurface == PageInit /\ probe \in SurfaceInputs /\ comp = NoComp

EvalSurfacePoints ==
  Eval("generateSurfacePoints",
       generateSurfacePoints(probe.width, probe.height, probe.frames))

EvalSurfaceIndices ==
  Eval("generateSurfaceIndices",
       generateSurfaceIndices(probe.width, probe.height, probe.frames))

EvalSurfaceCount ==
  Eval("surfacePointCount",
       surfacePointCountShown(probe.width, probe.height, probe.frames))

NextSurface ==
  \/ EvalSurfacePoints
  \/ EvalSurfaceIndices
  \/ EvalSurfaceCount

SpecSurface == InitSurface /\ [][NextSurface]_vars

\* C28: for width, height, frames >= 1 each generator returns every boundary
\* cell of the box exactly once and no other cell, and as many points as the
\* displayed surfacePointCount.
C28_SurfaceIsBoundaryOnce ==
  probe.fn \in {"generateSurfacePoints", "generateSurfaceIndices"} =>
    LET cells == [i \in DOMAIN probe.out |-> pointCell(probe.out[i], probe.width)]
    IN /\ {cells[i] : i \in DOMAIN cells}
            = BoxBoundary(probe.width, probe.height, probe.frames)
       /\ \A i, j \in DOMAIN cells : i # j => cells[i] # cells[j]
       /\ Len(cells)
            = surfacePointCountShown(probe.width, probe.height, probe.frames)
\* =========================================================================
\* Viewer animation of the box page
\* =========================================================================

MaxStarts == 3
DurationFrames == 3
MaxFrameStep == 2

\* The values of type ViewerAnimationType.
ViewerAnimationTypes == {"front", "side", "top", "orbit", "null"}

\* The page after mount: controls exist and are enabled, no points yet, no
\* animation.  raf is viewerAnimationRafRef, pending the number of animation
\* frames requested and neither fired nor cancelled, elapsed the time since
\* animation.startTime in units of duration / DurationFrames.
viewerMounted ==
  [kind |-> "viewer", points |-> FALSE, enabled |-> TRUE,
   controlsLocked |-> FALSE, isViewerAnimating |-> FALSE,
   activeViewerMode |-> "null", animation |-> "null", raf |-> "null",
   pending |-> 0, elapsed |-> 0, useOrthographic |-> TRUE, starts |-> 0]

stopViewerAnimation(c) ==
  [c EXCEPT !.pending = IF c.raf # "null" THEN 0 ELSE @,
            !.raf = "null",
            !.animation = "null",
            !.isViewerAnimating = FALSE,
            !.activeViewerMode = "null",
            !.enabled = TRUE,
            !.controlsLocked = FALSE]

\* runViewerAnimationLoop called at the given elapsed time.
runViewerAnimationLoop(c, elapsed) ==
  IF c.animation = "null" THEN c
  ELSE IF MathMin(elapsed, DurationFrames) < DurationFrames
    THEN [c EXCEPT !.elapsed = elapsed, !.raf = "set", !.pending = @ + 1]
    ELSE [c EXCEPT !.elapsed = DurationFrames,
                   !.animation = "null",
                   !.isViewerAnimating = FALSE,
                   !.activeViewerMode = "null",
                   !.enabled = TRUE,
                   !.controlsLocked = FALSE]

startViewerAnimation(c, type) ==
  IF ~c.points THEN c
  ELSE LET locked == [stopViewerAnimation(c) EXCEPT
                        !.useOrthographic = TRUE,
                        !.enabled = FALSE,
                        !.controlsLocked = TRUE,
                        !.activeViewerMode = type]
       IN IF type \in {"front", "side", "top"}
            THEN runViewerAnimationLoop(
                   [locked EXCEPT !.animation = type,
                                  !.isViewerAnimating = TRUE], 0)
            ELSE locked

InitViewer == PageInit /\ probe = NoProbe /\ comp = viewerMounted

\* Sampling finishes and buildPoints stores the points and their material.
ViewerBuildPoints ==
  /\ ~comp.points
  /\ comp' = [comp EXCEPT !.points = TRUE]
  /\ UNCHANGED <<pageVars, probe>>

\* The reset button: disposePoints.
ViewerDisposePoints ==
  /\ comp.points
  /\ comp' = [comp EXCEPT !.points = FALSE]
  /\ UNCHANGED <<pageVars, probe>>

\* The camera button toggles useOrthographic; configureCamera keeps the
\* controls object.
ViewerToggleCamera ==
  /\ comp' = [comp EXCEPT !.useOrthographic = ~@]
  /\ UNCHANGED <<pageVars, probe>>

StartViewerAnimation(type) ==
  /\ comp.starts < MaxStarts
  /\ comp' = [startViewerAnimation(comp, type) EXCEPT !.starts = @ + 1]
  /\ UNCHANGED <<pageVars, probe>>

\* A requested animation frame fires, d time units after the previous call.
ViewerFrame(d) ==
  /\ comp.pending > 0
  /\ comp' = runViewerAnimationLoop([comp EXCEPT !.pending = @ - 1],
                                    comp.elapsed + d)
  /\ UNCHANGED <<pageVars, probe>>

NextViewer ==
  \/ ViewerBuildPoints
  \/ ViewerDisposePoints
  \/ ViewerToggleCamera
  \/ \E type \in ViewerAnimationTypes : StartViewerAnimation(type)
  \/ \E d \in 1..MaxFrameStep : ViewerFrame(d)

SpecViewer == InitViewer /\ [][NextViewer]_vars

\* The browser keeps firing requested animation frames.
SpecViewerFair ==
  SpecViewer /\ WF_vars(\E d \in 1..MaxFrameStep : ViewerFrame(d))

viewerIdle ==
  /\ comp.enabled /\ ~comp.controlsLocked /\ ~comp.isViewerAnimating
  /\ comp.pending = 0

MaxVoxelMounts == 2
MaxVoxelFrames == 3

\* One run of the mount effect: its renderer, its loop() called once (frame
\* counts the renders, pending the requested animation frames not yet fired)
\* and whether its cleanup disposed the renderer; lateRenders counts the
\* renders issued after the dispose.
voxelMountEffect ==
  [frame |-> 1, pending |-> 1, disposed |-> FALSE, lateRenders |-> 0,
   resizeListener |-> TRUE]

\* loop(): render, count the frame and request the next animation frame; a
\* render that throws is re-thrown before the request.
voxelLoop(r, ok) ==
  IF ok
    THEN [r EXCEPT !.frame = @ + 1,
                   !.lateRenders = IF r.disposed THEN @ + 1 ELSE @]
    ELSE [r EXCEPT !.pending = @ - 1,
                   !.lateRenders = IF r.disposed THEN @ + 1 ELSE @]

\* The cleanup of the mount effect.
voxelCleanup(r) == [r EXCEPT !.resizeListener = FALSE, !.disposed = TRUE]

InitVoxel ==
  /\ PageInit /\ probe = NoProbe
  /\ comp = [kind |-> "voxel", mounted |-> FALSE, runs |-> <<>>]

VoxelMount ==
  /\ ~comp.mounted /\ Len(comp.runs) < MaxVoxelMounts
  /\ comp' = [comp EXCEPT !.mounted = TRUE,
                          !.runs = Append(@, voxelMountEffect)]
  /\ UNCHANGED <<pageVars, probe>>

VoxelUnmount ==
  /\ comp.mounted
  /\ comp' = [comp EXCEPT !.mounted = FALSE,
                          !.runs[Len(comp.runs)] = voxelCleanup(@)]
  /\ UNCHANGED <<pageVars, probe>>

\* The animation frame requested by run i fires.
VoxelFrame(i, ok) ==
  /\ comp.runs[i].pending > 0 /\ comp.runs[i].frame < MaxVoxelFrames
  /\ comp' = [comp EXCEPT !.runs[i] = voxelLoop(@, ok)]
  /\ UNCHANGED <<pageVars, probe>>

NextVoxel ==
  \/ VoxelMount
  \/ VoxelUnmount
  \/ \E i \in 1..MaxVoxelMounts : \E ok \in BOOLEAN :
       i <= Len(comp.runs) /\ VoxelFrame(i, ok)

SpecVoxel == InitVoxel /\ [][NextVoxel]_vars

\* C30: after the unmount cleanup of a VoxelVideo no animation frame of its
\* render loop is pending and no render is issued on its disposed renderer.
C30_NoFrameAfterUnmount ==
  \A i \in 1..Len(comp.runs) :
    comp.runs[i].disposed =>
      (comp.runs[i].pending = 0 /\ comp.runs[i].lateRenders = 0)

====
